---- MODULE Spec2Model ----
(***************************************************************************)
(* Idle tomography (pygsti/extras/idletomography/idtcore.py).              *)
(*                                                                         *)
(* Part 1: the Jacobian element functions, as operators.                   *)
(* Part 2: do_idle_tomography as a state machine over worker processes.    *)
(*                                                                         *)
(* A Pauli state is a record [rep, signs]: rep a sequence of letters over  *)
(* {X,Y,Z}, signs a parallel sequence over {1,-1}.  A Pauli error or an    *)
(* observable is a sequence of letters over {I,X,Y,Z}; an outcome is a     *)
(* sequence of bits "0"/"1".                                               *)
(***************************************************************************)
EXTENDS Integers, Sequences, FiniteSets, TLC

VARIABLES
    jac,    \* Part 1: the inputs and the result of one application of a pure function
    cfg,    \* Part 2: the arguments of the do_idle_tomography call (fixed during a run)
    comm,   \* per process: its communicator (world, rank, size) or none
    pc,     \* per process: its position in do_idle_tomography
    my,     \* per process: the loop locals (slice, my_J, my_obs_infos, my_Jaff)
    loc,    \* per process: the function locals (gathered lists, intrinsic_rates, ...)
    gath,   \* per (world, gather call): the data contributed so far, by rank
    ret,    \* per process: what the call returned or raised
    hist    \* per process: the events of the call so far, in order

\* ------------------------------------------------------------------ bounds
\* Largest number of qubits of a Pauli string.
MaxQubits == 2
\* Largest number of worker processes of a communicator.
MaxWorkers == 2
\* Largest length of a fiducial-pair list supplied through 'pauli_fidpairs'.
MaxPairs == 6

\* Largest maxweight given to idle_tomography_fidpairs.
MaxWeight == 3
\* Longest gate tuple of an entry given to preferred_signs_from_paulidict.
MaxGates == 2
\* Longest list of gate-string pairs given to fidpairs_to_pauli_fidpairs.
MaxList == 2
\* Largest count of one outcome in a dataset row.
MaxCount == 2

\* ----------------------------------------------------------- Pauli algebra
BasisLetters == <<"X", "Y", "Z">>
Bases == {"X", "Y", "Z"}
Letters == {"I", "X", "Y", "Z"}
Signs == {1, -1}
Bits == {"0", "1"}

\* A call either returns a value or raises: [exc |-> "", val |-> v] is the
\* value v returned, [exc |-> e, val |-> d] the exception e raised.
Ok(v) == [exc |-> "", val |-> v]
Raise(e, d) == [exc |-> e, val |-> d]
IsOk(r) == r.exc = ""
AssertionError == "AssertionError"

\* all sequences of length n over the set S
SeqsOf(S, n) == [1..n -> S]

PauliOps(n) == SeqsOf(Letters, n)
Outcomes(n) == SeqsOf(Bits, n)
PauliStates(n) == {[rep |-> r, signs |-> s] : r \in SeqsOf(Bases, n), s \in SeqsOf(Signs, n)}

\* pauliobjs._commute_parity: 1 when the two letters commute, -1 when they
\* anticommute (two different non-identity letters).
CommuteParity(P, E) == IF P = "I" \/ E = "I" \/ P = E THEN 1 ELSE -1

NextPauli(p) == IF p = "X" THEN "Y" ELSE IF p = "Y" THEN "Z" ELSE "X"
PrevPauli(p) == IF p = "X" THEN "Z" ELSE IF p = "Y" THEN "X" ELSE "Y"

RECURSIVE Prod(_)
\* numpy.prod of a list (1 for the empty list)
Prod(s) == IF s = <<>> THEN 1 ELSE Head(s) * Prod(Tail(s))

\* ------------------------------------------------ Jacobian element functions
\* StochasticBit with the commutation test lost: the anticommuting branch is never taken
StochasticBit_NoParity(s1, P, s2, Err) == IF s1 = s2 THEN "0" ELSE "1"

\* one qubit of stochastic_outcome's loop (the assert is in StochasticOutcome)
StochasticBit(s1, P, s2, Err) ==
    IF CommuteParity(P, Err) = 1
    THEN (IF s1 = s2 THEN "0" ELSE "1")
    ELSE (IF s1 = s2 THEN "1" ELSE "0")

StochasticOutcome(prep, error, meas) ==
    IF \E i \in 1..Len(prep.rep) : prep.rep[i] # meas.rep[i]
    THEN Raise(AssertionError, <<>>)
    ELSE Ok([i \in 1..Len(prep.rep) |->
               StochasticBit(prep.signs[i], prep.rep[i], meas.signs[i], error[i])])

StochasticJacElement(prep, error, meas, outcome) ==
    LET so == StochasticOutcome(prep, error, meas) IN
    IF ~IsOk(so) THEN Raise(so.exc, 0)
    ELSE Ok(IF so.val = outcome THEN 1 ELSE 0)

\* AffHelper with the sign reversal for outcome bit "1" lost
AffHelper_NoReversal(prepSign, prepBasis, errP, measSign, measBasis, outcome_bit) ==
    LET outsign == IF outcome_bit = "0" THEN 1 ELSE -1 IN
    IF prepBasis \notin Bases \/ measBasis \notin Bases \/ prepBasis # measBasis
    THEN Raise(AssertionError, 0)
    ELSE IF errP = "I"
         THEN Ok(IF prepSign * measSign * outsign = 1 THEN 1 ELSE 0)
         ELSE IF measBasis # errP THEN Ok(0) ELSE Ok(measSign)

\* AffHelper changing the probability of outcome bit "0" only
AffHelper_ZeroBitOnly(prepSign, prepBasis, errP, measSign, measBasis, outcome_bit) ==
    LET outsign == IF outcome_bit = "0" THEN 1 ELSE -1 IN
    IF prepBasis \notin Bases \/ measBasis \notin Bases \/ prepBasis # measBasis
    THEN Raise(AssertionError, 0)
    ELSE IF errP = "I"
         THEN Ok(IF prepSign * measSign * outsign = 1 THEN 1 ELSE 0)
         ELSE IF measBasis # errP THEN Ok(0)
              ELSE IF outcome_bit = "0" THEN Ok(measSign) ELSE Ok(0)

\* _affhelper of affine_jac_element
AffHelper(prepSign, prepBasis, errP, measSign, measBasis, outcome_bit) ==
    LET outsign == IF outcome_bit = "0" THEN 1 ELSE -1 IN
    IF prepBasis \notin Bases \/ measBasis \notin Bases \/ prepBasis # measBasis
    THEN Raise(AssertionError, 0)
    ELSE IF errP = "I"
         THEN (IF prepBasis = measBasis
               THEN Ok(IF prepSign * measSign * outsign = 1 THEN 1 ELSE 0)
               ELSE Ok(1))
         ELSE IF measBasis # errP THEN Ok(0)
              ELSE IF outcome_bit = "0" THEN Ok(measSign) ELSE Ok(measSign * (-1))

AffineJacElement(prep, error, meas, outcome) ==
    LET fs == [i \in 1..Len(prep.rep) |->
                 AffHelper(prep.signs[i], prep.rep[i], error[i],
                           meas.signs[i], meas.rep[i], outcome[i])]
    IN IF \E i \in 1..Len(fs) : ~IsOk(fs[i]) THEN Raise(AssertionError, 0)
       ELSE Ok(Prod([i \in 1..Len(fs) |-> fs[i].val]))

\* _affhelper of affine_jac_obs_element
AffObsHelper(prepSign, prepBasis, errP, measSign, measBasis, obsP) ==
    IF prepBasis \notin Bases \/ measBasis \notin Bases THEN Raise(AssertionError, 0)
    ELSE IF obsP = "I" THEN Ok(IF errP = "I" THEN 1 ELSE 0)
    ELSE IF errP = "I" THEN Ok(IF prepBasis = obsP THEN prepSign ELSE 0)
    ELSE Ok(IF obsP = errP THEN 2 ELSE 0)

AffineJacObsElement(prep, error, meas, observable) ==
    LET fs == [i \in 1..Len(prep.rep) |->
                 AffObsHelper(prep.signs[i], prep.rep[i], error[i],
                              meas.signs[i], meas.rep[i], observable[i])]
    IN IF \E i \in 1..Len(fs) : ~IsOk(fs[i]) THEN Raise(AssertionError, 0)
       ELSE Ok(Prod([i \in 1..Len(fs) |-> fs[i].val]))

\* ---------------------------------------------------------------- sequences
RECURSIVE Flatten(_)
\* itertools.chain(*lists) / concatenation of a list of lists
Flatten(ss) == IF ss = <<>> THEN <<>> ELSE Head(ss) \o Flatten(Tail(ss))

Min(a, b) == IF a < b THEN a ELSE b
Abs(a) == IF a < 0 THEN -a ELSE a

\* --------------------------------------- enumerators (idletomography.tools)
\* the error with letter p on qubit q and I elsewhere
String1Q(n, q, p) == [i \in 1..n |-> IF i = q THEN p ELSE "I"]

\* allerrors(nQubits, 1): the weight-1 errors, qubit by qubit
AllErrors(n, maxweight) ==
    [k \in 1..(3 * n) |-> String1Q(n, ((k - 1) \div 3) + 1, BasisLetters[((k - 1) % 3) + 1])]

FlipBit(b) == IF b = "0" THEN "1" ELSE "0"

\* alloutcomes(prep, meas, 1): the expected outcome with one bit flipped, for each qubit
AllOutcomes(prep, meas, maxweight) ==
    LET n == Len(prep.rep)
        expected == [i \in 1..n |-> IF prep.signs[i] = meas.signs[i] THEN "0" ELSE "1"]
    IN [q \in 1..n |-> [i \in 1..n |-> IF i = q THEN FlipBit(expected[i]) ELSE expected[i]]]

\* allobservables(meas, 1): the measurement letter on one qubit, I elsewhere
AllObservables(meas, maxweight) ==
    LET n == Len(meas.rep) IN [q \in 1..n |-> String1Q(n, q, meas.rep[q])]

\* tile_pauli_fidpairs(template_pairs, nQubits, maxweight) for nQubits = maxweight:
\* the one placement of a template is the template itself
TilePauliFidpairs(tmpl_pairs, n, maxweight) == tmpl_pairs

\* ------------------------------------------ Pauli operators (pauliobjs)
\* product of two letters: the letter, and the power of i in front of it
MulLetter(a, b) ==
    IF a = "I" THEN b ELSE IF b = "I" THEN a ELSE IF a = b THEN "I"
    ELSE CHOOSE c \in Bases : c # a /\ c # b
MulPhase(a, b) ==
    IF a = "I" \/ b = "I" \/ a = b THEN 0
    ELSE IF NextPauli(a) = b THEN 1 ELSE 3

RECURSIVE Sum(_)
Sum(s) == IF s = <<>> THEN 0 ELSE Head(s) + Sum(Tail(s))

\* NQPauliOp.icommutatorOver2: i/2 [error, observable], None when they commute
ICommutatorOver2(error, observable) ==
    LET n == Len(error)
        parity == Prod([i \in 1..n |-> CommuteParity(error[i], observable[i])])
        phase == (1 + Sum([i \in 1..n |-> MulPhase(error[i], observable[i])])) % 4
    IN IF parity = 1 THEN [none |-> TRUE, rep |-> <<>>, sign |-> 1]
       ELSE [none |-> FALSE,
             rep |-> [i \in 1..n |-> MulLetter(error[i], observable[i])],
             sign |-> IF phase = 0 THEN 1 ELSE -1]

\* NQPauliOp.statedot: Tr(op * prep)
StateDot(op, prep) ==
    op.sign * Prod([i \in 1..Len(op.rep) |->
                      IF op.rep[i] = "I" THEN 1
                      ELSE IF op.rep[i] = prep.rep[i] THEN prep.signs[i] ELSE 0])

HamiltonianJacElement(Prep, Error, Observable) ==
    LET com == ICommutatorOver2(Error, Observable) IN
    Ok(IF com.none THEN 0 ELSE StateDot(com, Prep))

\* ------------------------------------------------- idle_tomography_fidpairs
RECURSIVE LetterTuples(_)
\* itertools.product(('X','Y','Z'), repeat=n), in its order
LetterTuples(n) ==
    IF n = 0 THEN << <<>> >>
    ELSE LET prev == LetterTuples(n - 1) IN
         [k \in 1..(3 * Len(prev)) |->
            Append(prev[((k - 1) \div 3) + 1], BasisLetters[((k - 1) % 3) + 1])]

Conv(x) == IF x = "+" THEN 1 ELSE -1
LetterIndex(l) == IF l = "X" THEN 1 ELSE IF l = "Y" THEN 2 ELSE 3
BaseSign(preferred, l) == Conv(preferred[LetterIndex(l)])

NotImplementedError == "NotImplementedError"
ValueError == "ValueError"
NameError == "NameError"
IndexError == "IndexError"

\* variants of the flip patterns: one with flip-both for maxweight 2, one
\* that gives patterns for every maxweight
Flips_WithFlipBoth(maxweight, include_affine) ==
    IF include_affine
    THEN IF maxweight = 1 THEN Ok(<< <<1>>, <<-1>> >>)
         ELSE IF maxweight = 2 THEN Ok(<< <<1, 1>>, <<1, -1>>, <<-1, 1>>, <<-1, -1>> >>)
         ELSE Raise(NotImplementedError, <<>>)
    ELSE Ok(<< [i \in 1..maxweight |-> 1] >>)
Flips_AnyWeight(maxweight, include_affine) ==
    IF include_affine /\ maxweight = 1 THEN Ok(<< <<1>>, <<-1>> >>)
    ELSE IF include_affine /\ maxweight = 2 THEN Ok(<< <<1, 1>>, <<1, -1>>, <<-1, 1>> >>)
    ELSE Ok(<< [i \in 1..maxweight |-> 1] >>)

\* the sign-flip patterns of the stochastic/affine templates
Flips(maxweight, include_affine) ==
    IF include_affine
    THEN IF maxweight = 1 THEN Ok(<< <<1>>, <<-1>> >>)
         ELSE IF maxweight = 2 THEN Ok(<< <<1, 1>>, <<1, -1>>, <<-1, 1>> >>)
         ELSE Raise(NotImplementedError, <<>>)
    ELSE Ok(<< [i \in 1..maxweight |-> 1] >>)

\* the stochastic/affine template pairs for the given flip patterns
StoTmplPairs(flips, maxweight, prep_signs, meas_signs) ==
    LET lets == LetterTuples(maxweight)
        nl == Len(lets)
    IN [k \in 1..(Len(flips) * nl) |->
          LET fliptup == flips[((k - 1) \div nl) + 1]
              basisLets == lets[((k - 1) % nl) + 1]
          IN << [rep |-> basisLets,
                 signs |-> [i \in 1..maxweight |-> fliptup[i] * BaseSign(prep_signs, basisLets[i])]],
                [rep |-> basisLets,
                 signs |-> [i \in 1..maxweight |-> fliptup[i] * BaseSign(meas_signs, basisLets[i])]] >>]

\* a variant of the Hamiltonian templates that shifts prep and meas the same way
HamTmplPairs_SameShift(ham_tmpl, prep_signs, meas_signs) ==
    [k \in 1..Len(ham_tmpl) |->
       LET lets == [i \in 1..Len(ham_tmpl[k]) |-> NextPauli(ham_tmpl[k][i])]
       IN << [rep |-> lets, signs |-> [i \in 1..Len(lets) |-> BaseSign(prep_signs, lets[i])]],
             [rep |-> lets, signs |-> [i \in 1..Len(lets) |-> BaseSign(meas_signs, lets[i])]] >>]

\* the Hamiltonian template pairs of ham_tmpl
HamTmplPairs(ham_tmpl, prep_signs, meas_signs) ==
    [k \in 1..Len(ham_tmpl) |->
       LET prepLets == [i \in 1..Len(ham_tmpl[k]) |-> PrevPauli(ham_tmpl[k][i])]
           measLets == [i \in 1..Len(ham_tmpl[k]) |-> NextPauli(ham_tmpl[k][i])]
       IN << [rep |-> prepLets, signs |-> [i \in 1..Len(prepLets) |-> BaseSign(prep_signs, prepLets[i])]],
             [rep |-> measLets, signs |-> [i \in 1..Len(measLets) |-> BaseSign(meas_signs, measLets[i])]] >>]

IdleTomographyFidpairs(nQubits, maxweight, include_hamiltonian, include_stochastic, include_affine, ham_tmpl, prep_signs, meas_signs) ==
    LET flips == Flips(maxweight, include_affine)
        sto == IF include_stochastic
               THEN IF IsOk(flips)
                    THEN Ok(TilePauliFidpairs(
                              StoTmplPairs(flips.val, maxweight, prep_signs, meas_signs),
                              nQubits, maxweight))
                    ELSE flips
               ELSE IF include_affine THEN Raise(ValueError, <<>>) ELSE Ok(<<>>)
        ham == IF include_hamiltonian
               THEN IF \E k \in 1..Len(ham_tmpl) : Len(ham_tmpl[k]) # maxweight
                    THEN Raise(AssertionError, <<>>)
                    ELSE Ok(TilePauliFidpairs(HamTmplPairs(ham_tmpl, prep_signs, meas_signs),
                                              nQubits, maxweight))
               ELSE Ok(<<>>)
    IN IF ~IsOk(sto) THEN sto
       ELSE IF ~IsOk(ham) THEN ham
       ELSE Ok(sto.val \o ham.val)

\* ------------------------------------------- preferred_signs_from_paulidict
\* A translation dictionary is a function from keys to values.  A key is
\* the tuple of its characters (<<"+", "X">>, <<"X">>, <<"-", "X">>), so that
\* k[0] and k[-1] are its first and last element; a value is [isTuple,
\* items], the items being gate names.
Key(sign, let) == IF sign = "" THEN <<let>> ELSE <<sign, let>>
NoKey == <<>>
GateTuple(name, n) == [isTuple |-> TRUE, items |-> [i \in 1..n |-> name]]

\* a variant of the sign choice in which a tie goes to '-'
PreferredSignOfLetter_TieToMinus(pauliDict, let) ==
    LET plusKey == IF Key("+", let) \in DOMAIN pauliDict THEN Key("+", let)
                   ELSE IF Key("", let) \in DOMAIN pauliDict THEN Key("", let)
                   ELSE NoKey
        minusKey == IF Key("-", let) \in DOMAIN pauliDict THEN Key("-", let) ELSE NoKey
    IN IF minusKey # NoKey /\ plusKey # NoKey
       THEN IF Len(pauliDict[plusKey].items) < Len(pauliDict[minusKey].items)
            THEN Ok("+") ELSE Ok("-")
       ELSE IF plusKey # NoKey THEN Ok("+")
       ELSE IF minusKey # NoKey THEN Ok("-")
       ELSE Raise(ValueError, let)

\* the body of the loop over ('X','Y','Z'): the preferred sign of one letter
PreferredSignOfLetter(pauliDict, let) ==
    LET plusKey == IF Key("+", let) \in DOMAIN pauliDict THEN Key("+", let)
                   ELSE IF Key("", let) \in DOMAIN pauliDict THEN Key("", let)
                   ELSE NoKey
        minusKey == IF Key("-", let) \in DOMAIN pauliDict THEN Key("-", let) ELSE NoKey
    IN IF minusKey # NoKey /\ plusKey # NoKey
       THEN IF Len(pauliDict[plusKey].items) <= Len(pauliDict[minusKey].items)
            THEN Ok("+") ELSE Ok("-")
       ELSE IF plusKey # NoKey THEN Ok("+")
       ELSE IF minusKey # NoKey THEN Ok("-")
       ELSE Raise(ValueError, let)

\* the loop stops at the first letter that raises
PreferredSignsFromPaulidict(pauliDict) ==
    LET s == [i \in 1..3 |-> PreferredSignOfLetter(pauliDict, BasisLetters[i])]
    IN IF \E i \in 1..3 : ~IsOk(s[i])
       THEN s[CHOOSE i \in 1..3 : ~IsOk(s[i]) /\ \A j \in 1..(i - 1) : IsOk(s[j])]
       ELSE Ok([i \in 1..3 |-> s[i].val])

\* ---------------------------------------------- fidpairs_to_pauli_fidpairs
\* prepDict and measDict keep the order of their entries (dict.items()): a
\* sequence of [key, val] with pairwise different keys.  A gate string is a
\* sequence of labels, a label the sequence of its components, a component
\* [name, sslbls]; a qubit label is [isInt, id].
DictOf(items) ==
    [k \in {items[i].key : i \in DOMAIN items} |->
        (items[CHOOSE i \in DOMAIN items : items[i].key = k]).val]

\* the two assert loops over prepDict.items() and measDict.items()
ItemsOk(items) ==
    \A i \in DOMAIN items :
        /\ items[i].key[Len(items[i].key)] \in {"X", "Y", "Z"}
        /\ items[i].val.isTuple

\* { v:k for k,v in pauliDict.items() }: a later entry replaces an earlier
\* one with the same gate tuple
RevDict(items) ==
    [v \in {items[i].val.items : i \in DOMAIN items} |->
        LET last == CHOOSE i \in DOMAIN items :
                      /\ items[i].val.items = v
                      /\ \A j \in DOMAIN items : items[j].val.items = v => j <= i
        IN items[last].key]

\* gatenames_per_qubit[q]
GatenamesPerQubit(comps, q) ==
    LET mine == SelectSeq(comps, LAMBDA c : c.sslbls[1].id = q)
    IN [i \in 1..Len(mine) |-> mine[i].name]

\* a variant of convert that gives every qubit the sign +1
Convert_AlwaysPlus(gstr, rev_pauliDict, nQubits) ==
    LET comps == Flatten(gstr)
        basis(q) == IF GatenamesPerQubit(comps, q) \in DOMAIN rev_pauliDict
                    THEN rev_pauliDict[GatenamesPerQubit(comps, q)] ELSE NoKey
    IN IF \E i \in DOMAIN comps : Len(comps[i].sslbls) # 1 \/ ~comps[i].sslbls[1].isInt
       THEN Raise(AssertionError, <<>>)
       ELSE IF \E q \in 0..(nQubits - 1) : basis(q) = NoKey
       THEN Raise(AssertionError, <<>>)
       ELSE Ok([rep |-> [i \in 1..nQubits |-> basis(i - 1)[Len(basis(i - 1))]],
                signs |-> [i \in 1..nQubits |-> 1]])

\* convert(gstr, rev_pauliDict)
Convert(gstr, rev_pauliDict, nQubits) ==
    LET comps == Flatten(gstr)
        basis(q) == IF GatenamesPerQubit(comps, q) \in DOMAIN rev_pauliDict
                    THEN rev_pauliDict[GatenamesPerQubit(comps, q)] ELSE NoKey
    IN IF \E i \in DOMAIN comps : Len(comps[i].sslbls) # 1 \/ ~comps[i].sslbls[1].isInt
       THEN Raise(AssertionError, <<>>)
       ELSE IF \E q \in 0..(nQubits - 1) : basis(q) = NoKey
       THEN Raise(AssertionError, <<>>)
       ELSE Ok([rep |-> [i \in 1..nQubits |-> basis(i - 1)[Len(basis(i - 1))]],
                signs |-> [i \in 1..nQubits |-> IF basis(i - 1)[1] = "-" THEN -1 ELSE 1]])

\* a variant without the try/except around the two conversions
FidpairsToPauliFidpairs_NoSkip(fidpairsList, pauliDicts, nQubits) ==
    IF ~ItemsOk(pauliDicts[1]) \/ ~ItemsOk(pauliDicts[2]) THEN Raise(AssertionError, <<>>)
    ELSE LET conv == [i \in DOMAIN fidpairsList |->
                        << Convert(fidpairsList[i][1], RevDict(pauliDicts[1]), nQubits),
                           Convert(fidpairsList[i][2], RevDict(pauliDicts[2]), nQubits) >>]
         IN IF \E i \in DOMAIN conv : ~IsOk(conv[i][1]) \/ ~IsOk(conv[i][2])
            THEN Raise(AssertionError, <<>>)
            ELSE Ok([i \in DOMAIN conv |-> <<conv[i][1].val, conv[i][2].val>>])

FidpairsToPauliFidpairs(fidpairsList, pauliDicts, nQubits) ==
    IF ~ItemsOk(pauliDicts[1]) \/ ~ItemsOk(pauliDicts[2]) THEN Raise(AssertionError, <<>>)
    ELSE LET conv == [i \in DOMAIN fidpairsList |->
                        << Convert(fidpairsList[i][1], RevDict(pauliDicts[1]), nQubits),
                           Convert(fidpairsList[i][2], RevDict(pauliDicts[2]), nQubits) >>]
             kept == SelectSeq(conv, LAMBDA r : IsOk(r[1]) /\ IsOk(r[2]))
         IN Ok([i \in DOMAIN kept |-> <<kept[i][1].val, kept[i][2].val>>])

\* ------------------------------------------------ make_idle_tomography_list
\* NQPauliState.to_gatestring(pauliDict): per qubit i the gates of the entry
\* for the signed letter ("+L", else bare "L", for a plus sign; "-L" for a
\* minus sign), each labelled with qubit i
ToGatestring(state, items) ==
    LET d == DictOf(items)
        n == Len(state.rep)
        key(i) == IF state.signs[i] = -1 THEN Key("-", state.rep[i])
                  ELSE IF Key("+", state.rep[i]) \in DOMAIN d THEN Key("+", state.rep[i])
                  ELSE Key("", state.rep[i])
    IN IF \E i \in 1..n : key(i) \notin DOMAIN d THEN Raise(ValueError, <<>>)
       ELSE Ok(Flatten([i \in 1..n |->
                  [j \in 1..Len(d[key(i)].items) |->
                     << [name |-> d[key(i)].items[j],
                         sslbls |-> << [isInt |-> TRUE, id |-> i - 1] >>] >>]]))

\* pauli_fidpairs of make_idle_tomography_list with "auto" preferred signs
AutoPauliFidpairs(nQubits, pauliDicts, maxErrWeight, includeHamSeqs, includeStochasticSeqs, includeAffineSeqs, ham_tmpl) ==
    LET prep_signs == PreferredSignsFromPaulidict(DictOf(pauliDicts[1]))
        meas_signs == PreferredSignsFromPaulidict(DictOf(pauliDicts[2]))
    IN IF ~IsOk(prep_signs) THEN prep_signs
       ELSE IF ~IsOk(meas_signs) THEN meas_signs
       ELSE IdleTomographyFidpairs(nQubits, maxErrWeight, includeHamSeqs, includeStochasticSeqs,
                                   includeAffineSeqs, ham_tmpl, prep_signs.val, meas_signs.val)

\* fidpairs of make_idle_tomography_list: the gate strings of each pair
Fidpairs(pauli_fidpairs, pauliDicts) ==
    LET gs == [i \in DOMAIN pauli_fidpairs |->
                 << ToGatestring(pauli_fidpairs[i][1], pauliDicts[1]),
                    ToGatestring(pauli_fidpairs[i][2], pauliDicts[2]) >>]
    IN IF \E i \in DOMAIN gs : ~IsOk(gs[i][1]) \/ ~IsOk(gs[i][2])
       THEN Raise(ValueError, <<>>)
       ELSE Ok([i \in DOMAIN gs |-> <<gs[i][1].val, gs[i][2].val>>])

\* ------------------------------------------------------------ linear algebra
\* A Jacobian element is a record [cls, err, val]: val the number the code
\* stores, cls and err the error class and the error generator the column
\* of that number belongs to.  A row is [key, elems], key naming the
\* (fiducial pair index, outcome or observable) it was built from.
Elem(cls, err, val) == [cls |-> cls, err |-> err, val |-> val]
ZeroElem == Elem("zero", <<>>, 0)

RECURSIVE Gcd(_, _)
Gcd(a, b) == IF b = 0 THEN a ELSE Gcd(b, a % b)

RowGcd(r) ==
    LET RECURSIVE G(_, _)
        G(i, acc) == IF i > Len(r) THEN acc ELSE G(i + 1, Gcd(Abs(r[i]), acc))
    IN G(1, 0)

Normalize(r) == LET g == RowGcd(r) IN IF g = 0 THEN r ELSE [i \in 1..Len(r) |-> r[i] \div g]

RECURSIVE RankFrom(_, _, _)
\* rank of the integer rows `rows` restricted to columns c..ncols, by elimination
RankFrom(rows, c, ncols) ==
    IF rows = <<>> \/ c > ncols THEN 0
    ELSE IF \A i \in 1..Len(rows) : rows[i][c] = 0 THEN RankFrom(rows, c + 1, ncols)
    ELSE LET p == CHOOSE i \in 1..Len(rows) : rows[i][c] # 0 /\ \A j \in 1..(i - 1) : rows[j][c] = 0
             piv == rows[p]
             rest == [i \in 1..(Len(rows) - 1) |->
                        LET r == rows[IF i < p THEN i ELSE i + 1] IN
                        IF r[c] = 0 THEN r
                        ELSE Normalize([k \in 1..ncols |-> piv[c] * r[k] - r[c] * piv[k]])]
         IN 1 + RankFrom(rest, c + 1, ncols)

Vals(J) == [i \in 1..Len(J) |-> [k \in 1..Len(J[i].elems) |-> J[i].elems[k].val]]
NCols(J) == Len(J[1].elems)

\* numpy.linalg.matrix_rank of a matrix with at least one row
MatrixRank(J) == RankFrom(Vals(J), 1, NCols(J))

\* The pseudo-inverse times the observed rates is a vector with one entry per
\* column of J.  The numbers are not computed: entry k records the classes
\* and error generators of the elements found in column k.
ColLabels(J, k) == {<<J[i].elems[k].cls, J[i].elems[k].err>> : i \in 1..Len(J)} \ {<<"zero", <<>>>>}
PinvDot(J, obs) == [k \in 1..NCols(J) |-> [col |-> k, labels |-> ColLabels(J, k)]]

\* numpy.concatenate(parts, axis=0) of per-rank row lists: an empty list is a
\* 1-d array and cannot be joined with 2-d ones
ConcatenateRows(parts) ==
    IF (\E i \in 1..Len(parts) : parts[i] = <<>>) /\ (\E i \in 1..Len(parts) : parts[i] # <<>>)
    THEN Raise(ValueError, <<>>)
    ELSE Ok(Flatten(parts))

\* my slice of the list: contiguous blocks in rank order (mpitools.distribute_indices)
DistributeIndices(lst, c) ==
    IF c.none THEN lst
    ELSE LET n == Len(lst)
             base == n \div c.size
             extra == n % c.size
             start == c.rank * base + Min(c.rank, extra)
             count == base + (IF c.rank < extra THEN 1 ELSE 0)
         IN SubSeq(lst, start + 1, start + count)

\* a variant of the numbering that starts at 1
Enumerate_FromOne(lst) == [i \in 1..Len(lst) |-> <<i, lst[i]>>]
\* list(enumerate(pauli_fidpairs)) (lines 606, 720)
Enumerate(lst) == [i \in 1..Len(lst) |-> <<i - 1, lst[i]>>]

\* ======================================================================
\* Part 2: do_idle_tomography
\* ======================================================================
\* ------------------------------------------------------- the call's inputs
JacModes == {"separate", "together", "other"}
\* the fit orders: 1 and 2 are supported, 0 and 3 are not; orders 0 and 2
\* are run in "separate" mode only (the orchestrator treats orders 1 and 2
\* alike, and orders 0 and 3 alike)
FitOrders(jm) == IF jm = "separate" THEN {0, 1, 2, 3} ELSE {1, 3}
ModeOrders == UNION { { [jacmode |-> jm, fitOrder |-> fo] : fo \in FitOrders(jm) } : jm \in JacModes }
\* the lengths of the supplied lists
SuppliedLengths == {0, 1, 2, MaxPairs}
\* the default ham_tmpl of the signature, and one for maxErrWeight = 1
HamTmplDefault == << <<"Z","Y">>, <<"Z","X">>, <<"X","Z">>, <<"Y","Z">>, <<"Y","X">>, <<"X","Y">> >>
HamTmplWeight1 == << <<"X">>, <<"Y">>, <<"Z">> >>
\* the preferred basis signs: all '+', and those of the example dictionaries
\* of fidpairs_to_pauli_fidpairs
SignChoices == { [prep |-> <<"+","+","+">>, meas |-> <<"+","+","+">>],
                 [prep |-> <<"+","-","+">>, meas |-> <<"-","+","+">>] }

Uniform(n, x) == [i \in 1..n |-> x]

\* The j-th pair of a supplied 'pauli_fidpairs' list on n qubits: odd j a
\* same-basis pair, even j a pair measured in another basis, the letters
\* cycling through X, Y, Z and the measurement sign of the first qubit
\* alternating from one cycle to the next.
SuppliedPair(j, n) ==
    LET l == BasisLetters[(((j - 1) \div 2) % 3) + 1]
        s == IF ((j - 1) \div 6) % 2 = 0 THEN 1 ELSE -1
        msigns == [i \in 1..n |-> IF i = 1 THEN s ELSE 1]
    IN IF j % 2 = 1
       THEN << [rep |-> Uniform(n, l), signs |-> Uniform(n, 1)],
               [rep |-> Uniform(n, l), signs |-> msigns] >>
       ELSE << [rep |-> Uniform(n, PrevPauli(l)), signs |-> Uniform(n, 1)],
               [rep |-> Uniform(n, NextPauli(l)), signs |-> msigns] >>

SuppliedList(k, n) == [j \in 1..k |-> SuppliedPair(j, n)]

\* generated fiducial pairs need no tiling when nQubits = maxErrWeight = 1
GeneratedCfgs ==
    { [nQubits |-> 1, maxErrWeight |-> 1, has_pauli_fidpairs |-> FALSE, pauli_fidpairs |-> <<>>,
       ham_tmpl |-> t, prep_signs |-> sg.prep, meas_signs |-> sg.meas]
      : t \in {HamTmplDefault, HamTmplWeight1}, sg \in SignChoices }

SuppliedCfgs ==
    { [nQubits |-> n, maxErrWeight |-> 1, has_pauli_fidpairs |-> TRUE,
       pauli_fidpairs |-> SuppliedList(k, n),
       ham_tmpl |-> HamTmplDefault, prep_signs |-> <<"+","+","+">>, meas_signs |-> <<"+","+","+">>]
      : n \in 1..MaxQubits, k \in SuppliedLengths }

Cfgs ==
    { [nQubits |-> b.nQubits, maxErrWeight |-> b.maxErrWeight,
       extract_hamiltonian |-> h, extract_stochastic |-> st, extract_affine |-> a,
       jacmode |-> mo.jacmode, fitOrder |-> mo.fitOrder,
       has_pauli_fidpairs |-> b.has_pauli_fidpairs, pauli_fidpairs |-> b.pauli_fidpairs,
       ham_tmpl |-> b.ham_tmpl, prep_signs |-> b.prep_signs, meas_signs |-> b.meas_signs]
      : b \in GeneratedCfgs \cup SuppliedCfgs, h \in BOOLEAN, st \in BOOLEAN, a \in BOOLEAN,
        mo \in ModeOrders }

\* comm=None, or a communicator of n ranks
NoComm(w) == [none |-> TRUE, world |-> w, rank |-> 0, size |-> 1]
Comm(w, r, n) == [none |-> FALSE, world |-> w, rank |-> r, size |-> n]
Comms ==
    { [q \in {0} |-> NoComm(0)] } \cup { [q \in 0..(n - 1) |-> Comm(0, q, n)] : n \in 1..MaxWorkers }

\* ------------------------------------------------------------- the state
Procs == DOMAIN comm
\* variants of the coordinator test: one that forgets "comm is None", one
\* that lets every rank through
IsRoot_RankOnly(p) == ~comm[p].none /\ comm[p].rank = 0
IsRoot_Everyone(p) == TRUE
\* comm is None or comm.Get_rank() == 0
IsRoot(p) == comm[p].none \/ comm[p].rank = 0
World(p) == {q \in Procs : comm[q].world = comm[p].world}
ProcOfRank(p, r) == CHOOSE q \in World(p) : comm[q].rank = r

EmptyDict == [k \in {} |-> <<>>]
DictPut(d, k, v) == [x \in (DOMAIN d) \cup {k} |-> IF x = k THEN v ELSE d[x]]

MyEmpty == [slice |-> <<>>, i |-> 0, J |-> <<>>, infos |-> <<>>, Jaff |-> <<>>]
LocEmpty ==
    [same_basis_fidpairs |-> <<>>, diff_basis_fidpairs |-> <<>>, errors |-> <<>>,
     pauli_fidpairs |-> <<>>, info_list |-> <<>>, J_list |-> <<>>, Jaff_list |-> <<>>,
     intrinsic_rates |-> EmptyDict, pauli_fidpair_dict |-> EmptyDict,
     observed_rate_infos |-> EmptyDict,
     sto_aff_jac |-> <<>>, sto_aff_obs_err_rates |-> <<>>,
     ham_aff_jac |-> <<>>, ham_aff_obs_err_rates |-> <<>>]

Sites == {"s1info", "s1J", "s2info", "s2J", "s2Jaff"}
Stage1Sites == {"s1info", "s1J"}
Absent == [here |-> FALSE, data |-> <<>>]
Present(d) == [here |-> TRUE, data |-> d]

NoValue == [none |-> TRUE, errors |-> <<>>, fitOrder |-> 0, maxErrWeight |-> 0,
            intrinsic_rates |-> EmptyDict, pauli_fidpair_dict |-> EmptyDict,
            observed_rate_infos |-> EmptyDict]
Running == [kind |-> "running", exc |-> "", value |-> NoValue]
Returned(v) == [kind |-> "returned", exc |-> "", value |-> v]
Raised(e) == [kind |-> "raised", exc |-> e, value |-> NoValue]

\* an event of a call: what happened, in which stage (or at which gather),
\* on which fiducial pair (-1: none), with which Jacobian rows and rates
Ev(ev, stage, ifp, J, obs) == [ev |-> ev, stage |-> stage, ifp |-> ifp, J |-> J, obs |-> obs]

JacIdle == [prep |-> [rep |-> <<>>, signs |-> <<>>], meas |-> [rep |-> <<>>, signs |-> <<>>],
            fn |-> "idle", outcome |-> <<>>, row |-> <<>>]
NoCfg == [nQubits |-> 0]
NoCommAtAll == [q \in {} |-> NoComm(0)]

orchVars == <<cfg, comm, pc, my, loc, gath, ret, hist>>
vars == <<jac, cfg, comm, pc, my, loc, gath, ret, hist>>

InitProcs ==
    /\ pc = [q \in Procs |-> "start"]
    /\ my = [q \in Procs |-> MyEmpty]
    /\ loc = [q \in Procs |-> LocEmpty]
    /\ gath = [q \in Procs |-> [site \in Sites |-> Absent]]
    /\ ret = [q \in Procs |-> Running]
    /\ hist = [q \in Procs |-> <<>>]

Init ==
    /\ jac = JacIdle
    /\ cfg \in Cfgs
    /\ comm \in Comms
    /\ InitProcs

\* the call of process p ends with exception e
Fail(p, e) ==
    /\ pc' = [pc EXCEPT ![p] = "failed"]
    /\ ret' = [ret EXCEPT ![p] = Raised(e)]

Goto(p, where) == pc' = [pc EXCEPT ![p] = where]
Log(p, evs) == hist' = [hist EXCEPT ![p] = hist[p] \o evs]

\* --------------------------------------------------- options (lines 552-592)
SameRep(fp) == fp[1].rep = fp[2].rep
DiffRep(fp) == ~SameRep(fp)
\* a variant of the partition that sends every supplied pair to Stage 1
SameBasisFidpairs_All(fidpairs) == fidpairs
\* the partition of advancedOptions['pauli_fidpairs']
SameBasisFidpairs(fidpairs) == SelectSeq(fidpairs, SameRep)
DiffBasisFidpairs(fidpairs) == SelectSeq(fidpairs, DiffRep)

Start(p) ==
    /\ pc[p] = "start"
    /\ loc' = [loc EXCEPT
                 ![p].same_basis_fidpairs =
                     IF cfg.has_pauli_fidpairs THEN SameBasisFidpairs(cfg.pauli_fidpairs) ELSE <<>>,
                 ![p].diff_basis_fidpairs =
                     IF cfg.has_pauli_fidpairs THEN DiffBasisFidpairs(cfg.pauli_fidpairs) ELSE <<>>,
                 ![p].errors = AllErrors(cfg.nQubits, cfg.maxErrWeight)]
    /\ Goto(p, "stage1")
    /\ UNCHANGED <<jac, cfg, comm, my, gath, ret, hist>>

\* ------------------------------------------------------ the curve-fit estimator
\* The fitted slope is not computed: a rate names the fit it comes from
\* (error class, fiducial pair, outcome or observable) and the corrections
\* subtracted from it since.
Rate(kind, fp, key) == [fit |-> [kind |-> kind, pair |-> fp, key |-> key], minus |-> <<>>]
NoInfo == [rate |-> Rate("", <<>>, <<>>), fitOrder |-> 0, jacobian_row |-> <<>>,
           affine_jacobian_row |-> <<>>]

\* a variant of the stochastic estimator that accepts every fit order
GetObsStochasticErrRate_AnyOrder(pauli_fidpair, outcome, fitOrder) ==
    Ok([NoInfo EXCEPT !.rate = Rate("stochastic", pauli_fidpair, outcome), !.fitOrder = fitOrder])

GetObsStochasticErrRate(pauli_fidpair, outcome, fitOrder) ==
    IF fitOrder = 1 \/ fitOrder = 2
    THEN Ok([NoInfo EXCEPT !.rate = Rate("stochastic", pauli_fidpair, outcome), !.fitOrder = fitOrder])
    ELSE Raise(NotImplementedError, NoInfo)

GetObsHamiltonianErrRate(pauli_fidpair, observable, fitOrder) ==
    IF fitOrder = 1 \/ fitOrder = 2
    THEN Ok([NoInfo EXCEPT !.rate = Rate("hamiltonian", pauli_fidpair, observable), !.fitOrder = fitOrder])
    ELSE Raise(NotImplementedError, NoInfo)

\* a dict in insertion order: a sequence of [key, info]
DictSet(d, k, v) ==
    IF \E i \in 1..Len(d) : d[i].key = k
    THEN [i \in 1..Len(d) |-> IF d[i].key = k THEN [key |-> k, info |-> v] ELSE d[i]]
    ELSE Append(d, [key |-> k, info |-> v])
DictValues(d) == [i \in 1..Len(d) |-> d[i].info]

RECURSIVE DictFrom(_, _)
\* the dict filled with the entries kvs, in order
DictFrom(d, kvs) ==
    IF kvs = <<>> THEN d ELSE DictFrom(DictSet(d, Head(kvs).key, Head(kvs).info), Tail(kvs))

\* the first exception of a sequence of calls, or "" when none raises
FirstExc(rs) ==
    IF \A i \in 1..Len(rs) : IsOk(rs[i]) THEN ""
    ELSE rs[CHOOSE i \in 1..Len(rs) : ~IsOk(rs[i]) /\ \A j \in 1..(i - 1) : IsOk(rs[j])].exc

ElemsOf(cls, errors, rs) == [k \in 1..Len(rs) |-> Elem(cls, errors[k], rs[k].val)]

\* ------------------------------------------- Stage 1, one fiducial pair
\* the Jacobian row of one outcome (lines 627-632)
StochasticJrow(fp, out, errors, extract_affine) ==
    LET sto == [k \in 1..Len(errors) |-> StochasticJacElement(fp[1], errors[k], fp[2], out)]
        aff == [k \in 1..Len(errors) |-> AffineJacElement(fp[1], errors[k], fp[2], out)]
        exc == FirstExc(IF extract_affine THEN sto \o aff ELSE sto)
    IN IF exc # "" THEN Raise(exc, <<>>)
       ELSE Ok(ElemsOf("stochastic", errors, sto)
               \o (IF extract_affine THEN ElemsOf("affine", errors, aff) ELSE <<>>))

\* the body of the loop over my_FidpairList, for one pair (lines 612-646):
\* the rows and the infos of the pair, or the first exception
AnalyseStochasticPair(ifp, fp, errors, c) ==
    LET all_outcomes == AllOutcomes(fp[1], fp[2], c.maxErrWeight)
        n == Len(all_outcomes)
        jrows == [j \in 1..n |-> StochasticJrow(fp, all_outcomes[j], errors, c.extract_affine)]
        fits == [j \in 1..n |-> GetObsStochasticErrRate(fp, all_outcomes[j], c.fitOrder)]
        \* per outcome the row is built first, then the fit is made
        calls == [m \in 1..(2 * n) |-> IF m % 2 = 1 THEN jrows[(m + 1) \div 2] ELSE fits[m \div 2]]
        exc == FirstExc(calls)
    IN IF exc # "" THEN Raise(exc, [rows |-> <<>>, infos |-> <<>>])
       ELSE Ok([rows |-> [j \in 1..n |-> [key |-> [ifp |-> ifp, pair |-> fp, key |-> all_outcomes[j]],
                                          elems |-> jrows[j].val]],
                infos |-> DictFrom(<<>>,
                            [j \in 1..n |-> [key |-> all_outcomes[j],
                                             info |-> [fits[j].val EXCEPT !.jacobian_row = jrows[j].val]]])])

\* variants of the Stage-1 branch: one without the "elif extract_affine"
\* arm, one that runs the stage whatever the flag
Stage1Branch_NoRaise(c) == IF c.extract_stochastic THEN "run" ELSE "skip"
Stage1Branch_AlwaysRun(c) == "run"
\* which way the Stage-1 branch goes (lines 594, 705-706)
Stage1Branch(c) ==
    IF c.extract_stochastic THEN "run"
    ELSE IF c.extract_affine THEN "raise"
    ELSE "skip"

\* the fiducial pairs of Stage 1 (lines 596-602)
Stage1Fidpairs(p) ==
    IF cfg.has_pauli_fidpairs THEN Ok(loc[p].same_basis_fidpairs)
    ELSE IdleTomographyFidpairs(cfg.nQubits, cfg.maxErrWeight, FALSE, cfg.extract_stochastic,
                                cfg.extract_affine, cfg.ham_tmpl, cfg.prep_signs, cfg.meas_signs)

Stage1Enter(p) ==
    /\ pc[p] = "stage1"
    /\ CASE Stage1Branch(cfg) = "run" ->
              LET gen == Stage1Fidpairs(p) IN
              IF IsOk(gen)
              THEN /\ loc' = [loc EXCEPT ![p].pauli_fidpairs = gen.val]
                   /\ my' = [my EXCEPT ![p] =
                               [MyEmpty EXCEPT !.slice = DistributeIndices(Enumerate(gen.val), comm[p])]]
                   /\ Goto(p, "s1loop")
                   /\ UNCHANGED ret
              ELSE Fail(p, gen.exc) /\ UNCHANGED <<loc, my>>
         [] Stage1Branch(cfg) = "raise" -> Fail(p, ValueError) /\ UNCHANGED <<loc, my>>
         [] OTHER -> Goto(p, "stage2") /\ UNCHANGED <<loc, my, ret>>
    /\ UNCHANGED <<jac, cfg, comm, gath, hist>>

Stage1Analyse(p) ==
    /\ pc[p] = "s1loop"
    /\ my[p].i < Len(my[p].slice)
    /\ LET item == my[p].slice[my[p].i + 1]
           res == AnalyseStochasticPair(item[1], item[2], loc[p].errors, cfg)
       IN /\ Log(p, << Ev("analyse", "stochastic", item[1], <<>>, <<>>) >>)
          /\ IF IsOk(res)
             THEN /\ my' = [my EXCEPT ![p].i = @ + 1,
                                      ![p].J = @ \o res.val.rows,
                                      ![p].infos = Append(@, res.val.infos)]
                  /\ UNCHANGED <<pc, ret>>
             ELSE Fail(p, res.exc) /\ UNCHANGED my
    /\ UNCHANGED <<jac, cfg, comm, loc, gath>>

\* --------------------------------------------------------------- the gathers
\* where a gather is called from, what it sends, and where the call goes on
SitePc(site) ==
    CASE site = "s1info" -> "s1loop" [] site = "s1J" -> "s1J"
      [] site = "s2info" -> "s2loop" [] site = "s2J" -> "s2J" [] site = "s2Jaff" -> "s2Jaff"
SiteWait(site) ==
    CASE site = "s1info" -> "wait_s1info" [] site = "s1J" -> "wait_s1J"
      [] site = "s2info" -> "wait_s2info" [] site = "s2J" -> "wait_s2J"
      [] site = "s2Jaff" -> "wait_s2Jaff"
\* a variant in which my_Jaff is gathered whether affine is extracted or not
SiteNext_AlwaysJaff(site) ==
    CASE site = "s1info" -> "s1J" [] site = "s1J" -> "s1root"
      [] site = "s2info" -> "s2J" [] site = "s2J" -> "s2Jaff" [] site = "s2Jaff" -> "s2root"
SiteNext(site) ==
    CASE site = "s1info" -> "s1J" [] site = "s1J" -> "s1root"
      [] site = "s2info" -> "s2J"
      [] site = "s2J" -> (IF cfg.extract_affine THEN "s2Jaff" ELSE "s2root")
      [] site = "s2Jaff" -> "s2root"
SiteData(p, site) ==
    CASE site \in {"s1info", "s2info"} -> my[p].infos
      [] site \in {"s1J", "s2J"} -> my[p].J
      [] site = "s2Jaff" -> my[p].Jaff
SiteStore(l, site, lst) ==
    CASE site \in {"s1info", "s2info"} -> [l EXCEPT !.info_list = lst]
      [] site \in {"s1J", "s2J"} -> [l EXCEPT !.J_list = lst]
      [] site = "s2Jaff" -> [l EXCEPT !.Jaff_list = lst]

\* X_list = [ my_X ] if (comm is None) else comm.gather(my_X, root=0).
\* Without a communicator the list is there at once.  With one, the gather
\* is a collective call: a process that calls it waits until every rank of
\* its communicator has called it; the call of the last rank completes the
\* gather for all of them, rank 0 receiving the parts in rank order and the
\* other ranks None.
GatherCall(p, site) ==
    /\ pc[p] = SitePc(site)
    /\ my[p].i = Len(my[p].slice)
    /\ IF comm[p].none
       THEN /\ loc' = [loc EXCEPT ![p] = SiteStore(loc[p], site, << SiteData(p, site) >>)]
            /\ Goto(p, SiteNext(site))
            /\ UNCHANGED <<gath, hist>>
       ELSE /\ gath' = [gath EXCEPT ![p][site] = Present(SiteData(p, site))]
            /\ Log(p, << Ev("gather", site, -1, <<>>, <<>>) >>)
            /\ IF \A q \in World(p) \ {p} : pc[q] = SiteWait(site)
               THEN /\ pc' = [q \in Procs |-> IF q \in World(p) THEN SiteNext(site) ELSE pc[q]]
                    /\ loc' = [q \in Procs |->
                                 IF q \in World(p)
                                 THEN SiteStore(loc[q], site,
                                        IF comm[q].rank = 0
                                        THEN [r \in 1..comm[q].size |->
                                                gath'[ProcOfRank(p, r - 1)][site].data]
                                        ELSE <<>>)
                                 ELSE loc[q]]
               ELSE Goto(p, SiteWait(site)) /\ UNCHANGED loc
    /\ UNCHANGED <<jac, cfg, comm, my, ret>>

\* --------------------------------------------- the coordinator's inversions
\* obs_err_rates: the rates of the infos, pair by pair, in the dicts' order
ObsErrRates(infos_by_fidpair) ==
    Flatten([i \in 1..Len(infos_by_fidpair) |->
               LET vs == DictValues(infos_by_fidpair[i]) IN [j \in 1..Len(vs) |-> vs[j].rate]])

\* _warnings.warn(...): the module imports no name _warnings (lines 4-15)
WarningsWarn == Raise(NameError, <<>>)

\* The outcome of a coordinator step: the exception raised ("" for none),
\* the value computed and the events of the step.
Step(exc, val, evs) == [exc |-> exc, val |-> val, evs |-> evs]

\* rank = matrix_rank(J); if rank < J.shape[1]: warn; invJ = pinv(J); dot(invJ, obs)
\* (lines 669-674, 798-803, 848-854).  emptyExc is what a matrix without rows raises.
InvertChecked(stage, J, obs, emptyExc) ==
    LET rk == << Ev("rankcheck", stage, -1, J, <<>>) >>
        inv == << Ev("pinv", stage, -1, <<>>, obs) >>
    IN IF J = <<>> THEN Step(emptyExc, <<>>, rk)
       ELSE IF MatrixRank(J) < NCols(J)
            THEN IF IsOk(WarningsWarn)
                 THEN Step("", PinvDot(J, obs), rk \o << Ev("warn", stage, -1, <<>>, <<>>) >> \o inv)
                 ELSE Step(WarningsWarn.exc, <<>>, rk)
            ELSE Step("", PinvDot(J, obs), rk \o inv)

\* a variant of the split that takes the upper half for 'stochastic'
SplitStochastic_UpperHalf(v) == SubSeq(v, (Len(v) \div 2) + 1, Len(v))
\* the split of the Stage-1 vector in "separate" mode with affine (lines 682-684)
SplitStochastic(v) == SubSeq(v, 1, Len(v) \div 2)
SplitAffine(v) == SubSeq(v, (Len(v) \div 2) + 1, Len(v))

\* the coordinator's part of Stage 1 (lines 658-703)
Stage1Coord(l, c) ==
    LET Jc == ConcatenateRows(l.J_list)
        J == Jc.val
        infos_by_fidpair == Flatten(l.info_list)
        obs_err_rates == ObsErrRates(infos_by_fidpair)
        inv == IF c.jacmode = "separate"
               THEN InvertChecked("stochastic", J, obs_err_rates, IndexError)
               ELSE Step("", <<>>, <<>>)
        name == IF c.extract_affine THEN "stochastic/affine" ELSE "stochastic"
        rates == IF c.jacmode # "separate" THEN l.intrinsic_rates
                 ELSE IF c.extract_affine
                      THEN DictPut(DictPut(l.intrinsic_rates, "stochastic", SplitStochastic(inv.val)),
                                   "affine", SplitAffine(inv.val))
                      ELSE DictPut(l.intrinsic_rates, "stochastic", inv.val)
        together == c.jacmode = "together"
    IN IF ~IsOk(Jc) THEN Step(Jc.exc, l, <<>>)
       ELSE IF inv.exc # "" THEN Step(inv.exc, l, inv.evs)
       ELSE IF c.extract_affine /\ c.jacmode \notin {"separate", "together"}
            THEN Step(ValueError, l, inv.evs)
       ELSE Step("", [l EXCEPT !.intrinsic_rates = rates,
                               !.sto_aff_jac = IF together THEN J ELSE @,
                               !.sto_aff_obs_err_rates = IF together THEN obs_err_rates ELSE @,
                               !.pauli_fidpair_dict = DictPut(@, name, l.pauli_fidpairs),
                               !.observed_rate_infos = DictPut(@, name, infos_by_fidpair)],
                 inv.evs)

Stage1Root(p) ==
    /\ pc[p] = "s1root"
    /\ IF IsRoot(p)
       THEN LET r == Stage1Coord(loc[p], cfg) IN
            /\ Log(p, r.evs)
            /\ IF r.exc = ""
               THEN loc' = [loc EXCEPT ![p] = r.val] /\ Goto(p, "stage2") /\ UNCHANGED ret
               ELSE Fail(p, r.exc) /\ UNCHANGED loc
       ELSE Goto(p, "stage2") /\ UNCHANGED <<loc, ret, hist>>
    /\ UNCHANGED <<jac, cfg, comm, my, gath>>

\* ------------------------------------------- Stage 2, one fiducial pair
HamiltonianJrow(fp, obs, errors) ==
    ElemsOf("hamiltonian", errors,
            [k \in 1..Len(errors) |-> HamiltonianJacElement(fp[1], errors[k], obs)])

AffineObsJrow(fp, obs, errors) ==
    LET aff == [k \in 1..Len(errors) |-> AffineJacObsElement(fp[1], errors[k], fp[2], obs)]
    IN IF FirstExc(aff) # "" THEN Raise(FirstExc(aff), <<>>)
       ELSE Ok(ElemsOf("affine", errors, aff))

\* the body of the loop over my_FidpairList, for one pair (lines 724-758)
AnalyseHamiltonianPair(ifp, fp, errors, c) ==
    LET all_observables == AllObservables(fp[2], c.maxErrWeight)
        n == Len(all_observables)
        jrows == [j \in 1..n |-> HamiltonianJrow(fp, all_observables[j], errors)]
        affrows == [j \in 1..n |-> IF c.extract_affine
                                   THEN AffineObsJrow(fp, all_observables[j], errors)
                                   ELSE Ok(<<>>)]
        fits == [j \in 1..n |-> GetObsHamiltonianErrRate(fp, all_observables[j], c.fitOrder)]
        calls == [m \in 1..(2 * n) |-> IF m % 2 = 1 THEN affrows[(m + 1) \div 2] ELSE fits[m \div 2]]
        exc == FirstExc(calls)
        key(j) == [ifp |-> ifp, pair |-> fp, key |-> all_observables[j]]
    IN IF exc # "" THEN Raise(exc, [rows |-> <<>>, affrows |-> <<>>, infos |-> <<>>])
       ELSE Ok([rows |-> [j \in 1..n |-> [key |-> key(j), elems |-> jrows[j]]],
                affrows |-> IF c.extract_affine
                            THEN [j \in 1..n |-> [key |-> key(j), elems |-> affrows[j].val]]
                            ELSE <<>>,
                infos |-> DictFrom(<<>>,
                            [j \in 1..n |-> [key |-> all_observables[j],
                                             info |-> [fits[j].val EXCEPT
                                                         !.jacobian_row = jrows[j],
                                                         !.affine_jacobian_row = affrows[j].val]]])])

\* the fiducial pairs of Stage 2 (lines 710-716)
Stage2Fidpairs(p) ==
    IF cfg.has_pauli_fidpairs THEN Ok(loc[p].diff_basis_fidpairs)
    ELSE IdleTomographyFidpairs(cfg.nQubits, cfg.maxErrWeight, cfg.extract_hamiltonian, FALSE,
                                FALSE, cfg.ham_tmpl, cfg.prep_signs, cfg.meas_signs)

Stage2Enter(p) ==
    /\ pc[p] = "stage2"
    /\ IF cfg.extract_hamiltonian
       THEN LET gen == Stage2Fidpairs(p) IN
            IF IsOk(gen)
            THEN /\ loc' = [loc EXCEPT ![p].pauli_fidpairs = gen.val]
                 /\ my' = [my EXCEPT ![p] =
                             [MyEmpty EXCEPT !.slice = DistributeIndices(Enumerate(gen.val), comm[p])]]
                 /\ Goto(p, "s2loop")
                 /\ UNCHANGED ret
            ELSE Fail(p, gen.exc) /\ UNCHANGED <<loc, my>>
       ELSE Goto(p, "final") /\ UNCHANGED <<loc, my, ret>>
    /\ UNCHANGED <<jac, cfg, comm, gath, hist>>

Stage2Analyse(p) ==
    /\ pc[p] = "s2loop"
    /\ my[p].i < Len(my[p].slice)
    /\ LET item == my[p].slice[my[p].i + 1]
           res == AnalyseHamiltonianPair(item[1], item[2], loc[p].errors, cfg)
       IN /\ Log(p, << Ev("analyse", "hamiltonian", item[1], <<>>, <<>>) >>)
          /\ IF IsOk(res)
             THEN /\ my' = [my EXCEPT ![p].i = @ + 1,
                                      ![p].J = @ \o res.val.rows,
                                      ![p].Jaff = @ \o res.val.affrows,
                                      ![p].infos = Append(@, res.val.infos)]
                  /\ UNCHANGED <<pc, ret>>
             ELSE Fail(p, res.exc) /\ UNCHANGED my
    /\ UNCHANGED <<jac, cfg, comm, loc, gath>>

KeyError == "KeyError"
AxisError == "AxisError"

\* obs_err_rates -= dot(Jaff, Aintrinsic) (lines 787-795): entry i loses the
\* product of row i of Jaff with the affine rates
\* a variant of the correction that leaves the observed rates as they are
SubtractAffine_Nothing(obs_err_rates, Jaff, Aintrinsic) == obs_err_rates

SubtractAffine(obs_err_rates, Jaff, Aintrinsic) ==
    [i \in 1..Len(obs_err_rates) |->
       [obs_err_rates[i] EXCEPT !.minus = Append(@, [jaff |-> Jaff[i], A |-> Aintrinsic])]]

\* a variant in which the observed-rate vector shares its entries with the
\* records, so that the correction shows in the records' rates
InfosAfterCorrection_Aliased(infos_by_fidpair, corrected) ==
    LET RECURSIVE Before(_)
        Before(i) == IF i = 1 THEN 0 ELSE Before(i - 1) + Len(infos_by_fidpair[i - 1])
    IN [i \in 1..Len(infos_by_fidpair) |->
          [j \in 1..Len(infos_by_fidpair[i]) |->
             [infos_by_fidpair[i][j] EXCEPT !.info.rate = corrected[Before(i) + j]]]]

\* The records after "obs_err_rates -= corr": obs_err_rates is a new array
\* built from the records' rates (lines 779-781), so the subtraction in
\* place (line 795) changes the array and no record.
InfosAfterCorrection(infos_by_fidpair, corrected) == infos_by_fidpair

\* numpy.concatenate((J, Jaff), axis=1)
ConcatenateColumns(J, Jaff) ==
    [i \in 1..Len(J) |-> [key |-> J[i].key, elems |-> J[i].elems \o Jaff[i].elems]]

\* the coordinator's part of Stage 2 (lines 773-822)
Stage2Coord(l, c) ==
    LET Jc == ConcatenateRows(l.J_list)
        J == Jc.val
        infos_by_fidpair == Flatten(l.info_list)
        obs_err_rates == ObsErrRates(infos_by_fidpair)
        Jaffc == ConcatenateRows(l.Jaff_list)
        sep == c.jacmode = "separate"
        together == c.jacmode = "together"
        corrected == IF sep /\ c.extract_affine
                     THEN SubtractAffine(obs_err_rates, Jaffc.val, l.intrinsic_rates["affine"])
                     ELSE obs_err_rates
        corrEvs == IF sep /\ c.extract_affine
                   THEN << Ev("correct", "hamiltonian", -1, <<>>, corrected) >> ELSE <<>>
        inv == IF sep THEN InvertChecked("hamiltonian", J, corrected, IndexError)
               ELSE Step("", <<>>, <<>>)
        done == [l EXCEPT !.pauli_fidpair_dict = DictPut(@, "hamiltonian", l.pauli_fidpairs),
                          !.observed_rate_infos =
                              DictPut(@, "hamiltonian", InfosAfterCorrection(infos_by_fidpair, corrected))]
    IN IF ~IsOk(Jc) THEN Step(Jc.exc, l, <<>>)
       ELSE IF sep
            THEN IF c.extract_affine /\ ~IsOk(Jaffc) THEN Step(Jaffc.exc, l, <<>>)
                 ELSE IF c.extract_affine /\ "affine" \notin DOMAIN l.intrinsic_rates
                      THEN Step(KeyError, l, <<>>)
                 ELSE IF c.extract_affine /\ J = <<>> THEN Step(ValueError, l, <<>>)
                 ELSE IF inv.exc # "" THEN Step(inv.exc, l, corrEvs \o inv.evs)
                 ELSE Step("", [done EXCEPT !.intrinsic_rates = DictPut(@, "hamiltonian", inv.val)],
                           corrEvs \o inv.evs)
       ELSE IF together
            THEN IF c.extract_affine /\ ~IsOk(Jaffc) THEN Step(Jaffc.exc, l, <<>>)
                 ELSE IF c.extract_affine /\ J = <<>> THEN Step(AxisError, l, <<>>)
                 ELSE Step("", [done EXCEPT
                                  !.ham_aff_jac = IF c.extract_affine
                                                  THEN ConcatenateColumns(J, Jaffc.val) ELSE J,
                                  !.ham_aff_obs_err_rates = obs_err_rates], <<>>)
       ELSE Step("", done, <<>>)

Stage2Root(p) ==
    /\ pc[p] = "s2root"
    /\ IF IsRoot(p)
       THEN LET r == Stage2Coord(loc[p], cfg) IN
            /\ Log(p, r.evs)
            /\ IF r.exc = ""
               THEN loc' = [loc EXCEPT ![p] = r.val] /\ Goto(p, "final") /\ UNCHANGED ret
               ELSE Fail(p, r.exc) /\ UNCHANGED loc
       ELSE Goto(p, "final") /\ UNCHANGED <<loc, ret, hist>>
    /\ UNCHANGED <<jac, cfg, comm, my, gath>>

\* ------------------------------------------------------ the joint inversion
\* a variant of Jbig that leaves the Affine columns of the Hamiltonian rows
\* at zero
JointMatrix_ZeroAffine(l, c) ==
    LET nerr == Len(l.errors)
        r1 == IF c.extract_stochastic THEN Len(l.sto_aff_jac) ELSE 0
        c1 == IF c.extract_stochastic
              THEN nerr + (IF c.extract_affine THEN nerr ELSE 0) ELSE 0
        sto_off == IF c.extract_hamiltonian THEN nerr ELSE 0
        rows == r1 + (IF c.extract_hamiltonian THEN Len(l.ham_aff_jac) ELSE 0)
        cols == c1 + (IF c.extract_hamiltonian THEN nerr ELSE 0)
    IN [i \in 1..rows |->
          IF i <= r1
          THEN [key |-> l.sto_aff_jac[i].key,
                elems |-> [k \in 1..cols |->
                             IF k > sto_off THEN l.sto_aff_jac[i].elems[k - sto_off] ELSE ZeroElem]]
          ELSE [key |-> l.ham_aff_jac[i - r1].key,
                elems |-> [k \in 1..cols |->
                             IF k <= sto_off THEN l.ham_aff_jac[i - r1].elems[k] ELSE ZeroElem]]]

\* a variant of Jbig that stacks the Hamiltonian rows above the
\* Stochastic/Affine rows
JointMatrix_HamiltonianOnTop(l, c) ==
    LET nerr == Len(l.errors)
        r2 == IF c.extract_hamiltonian THEN Len(l.ham_aff_jac) ELSE 0
        c1 == IF c.extract_stochastic
              THEN nerr + (IF c.extract_affine THEN nerr ELSE 0) ELSE 0
        sto_off == IF c.extract_hamiltonian THEN nerr ELSE 0
        rows == r2 + (IF c.extract_stochastic THEN Len(l.sto_aff_jac) ELSE 0)
        cols == c1 + (IF c.extract_hamiltonian THEN nerr ELSE 0)
    IN [i \in 1..rows |->
          IF i > r2
          THEN [key |-> l.sto_aff_jac[i - r2].key,
                elems |-> [k \in 1..cols |->
                             IF k > sto_off THEN l.sto_aff_jac[i - r2].elems[k - sto_off] ELSE ZeroElem]]
          ELSE [key |-> l.ham_aff_jac[i].key,
                elems |-> [k \in 1..cols |->
                             IF k <= sto_off THEN l.ham_aff_jac[i].elems[k]
                             ELSE IF c.extract_affine /\ k > sto_off + nerr /\ k <= sto_off + 2 * nerr
                                  THEN l.ham_aff_jac[i].elems[k - nerr]
                                  ELSE ZeroElem]]]

\* Jbig of "together" mode (lines 827-846)
JointMatrix(l, c) ==
    LET nerr == Len(l.errors)
        r1 == IF c.extract_stochastic THEN Len(l.sto_aff_jac) ELSE 0
        c1 == IF c.extract_stochastic
              THEN nerr + (IF c.extract_affine THEN nerr ELSE 0) ELSE 0
        sto_off == IF c.extract_hamiltonian THEN nerr ELSE 0
        rows == r1 + (IF c.extract_hamiltonian THEN Len(l.ham_aff_jac) ELSE 0)
        cols == c1 + (IF c.extract_hamiltonian THEN nerr ELSE 0)
    IN [i \in 1..rows |->
          IF i <= r1
          THEN [key |-> l.sto_aff_jac[i].key,
                elems |-> [k \in 1..cols |->
                             IF k > sto_off THEN l.sto_aff_jac[i].elems[k - sto_off] ELSE ZeroElem]]
          ELSE [key |-> l.ham_aff_jac[i - r1].key,
                elems |-> [k \in 1..cols |->
                             IF k <= sto_off THEN l.ham_aff_jac[i - r1].elems[k]
                             ELSE IF c.extract_affine /\ k > sto_off + nerr /\ k <= sto_off + 2 * nerr
                                  THEN l.ham_aff_jac[i - r1].elems[k - nerr]
                                  ELSE ZeroElem]]]

\* a variant of the joint vector that takes the Hamiltonian rates first
JointObs_HamiltonianFirst(l, c) ==
    (IF c.extract_hamiltonian THEN l.ham_aff_obs_err_rates ELSE <<>>)
    \o (IF c.extract_stochastic THEN l.sto_aff_obs_err_rates ELSE <<>>)

\* obs_err_rates = concatenate(obs_to_concat) (lines 837-853)
JointObs(l, c) ==
    (IF c.extract_stochastic THEN l.sto_aff_obs_err_rates ELSE <<>>)
    \o (IF c.extract_hamiltonian THEN l.ham_aff_obs_err_rates ELSE <<>>)

\* a variant of the slices that takes 'stochastic' first, then 'hamiltonian'
JointSlices_StochasticFirst(rates, v, c, nerr) ==
    LET offH == IF c.extract_stochastic THEN nerr ELSE 0
        offA == offH + (IF c.extract_hamiltonian THEN nerr ELSE 0)
        r1 == IF c.extract_stochastic THEN DictPut(rates, "stochastic", SubSeq(v, 1, nerr)) ELSE rates
        r2 == IF c.extract_hamiltonian THEN DictPut(r1, "hamiltonian", SubSeq(v, offH + 1, offH + nerr)) ELSE r1
    IN IF c.extract_affine THEN DictPut(r2, "affine", SubSeq(v, offA + 1, offA + nerr)) ELSE r2

\* the slices of all_intrinsic_rates (lines 856-864)
JointSlices(rates, v, c, nerr) ==
    LET offS == IF c.extract_hamiltonian THEN nerr ELSE 0
        offA == offS + (IF c.extract_stochastic THEN nerr ELSE 0)
        r1 == IF c.extract_hamiltonian THEN DictPut(rates, "hamiltonian", SubSeq(v, 1, nerr)) ELSE rates
        r2 == IF c.extract_stochastic THEN DictPut(r1, "stochastic", SubSeq(v, offS + 1, offS + nerr)) ELSE r1
    IN IF c.extract_affine THEN DictPut(r2, "affine", SubSeq(v, offA + 1, offA + nerr)) ELSE r2

\* a variant of the "together" branch that returns without inverting
JointCoord_NoInversion(l, c) == Step("", l, <<>>)

\* the "together" branch of the last block (lines 825-864)
JointCoord(l, c) ==
    LET Jbig == JointMatrix(l, c)
        inv == InvertChecked("joint", Jbig, JointObs(l, c), ValueError)
    IN IF c.extract_stochastic /\ l.sto_aff_jac = <<>> THEN Step(ValueError, l, <<>>)
       ELSE IF c.extract_hamiltonian /\ l.ham_aff_jac = <<>> THEN Step(IndexError, l, <<>>)
       ELSE IF inv.exc # "" THEN Step(inv.exc, l, inv.evs)
       ELSE Step("", [l EXCEPT !.intrinsic_rates = JointSlices(@, inv.val, c, Len(l.errors))],
                 inv.evs)

\* _IdleTomographyResults(dataset, maxLengths, maxErrWeight, fitOrder, errors, ...)
Results(l, c) ==
    [none |-> FALSE, errors |-> l.errors, fitOrder |-> c.fitOrder, maxErrWeight |-> c.maxErrWeight,
     intrinsic_rates |-> l.intrinsic_rates, pauli_fidpair_dict |-> l.pauli_fidpair_dict,
     observed_rate_infos |-> l.observed_rate_infos]

\* the last block (lines 824-869)
Final(p) ==
    /\ pc[p] = "final"
    /\ IF IsRoot(p)
       THEN LET r == IF cfg.jacmode = "together" THEN JointCoord(loc[p], cfg)
                     ELSE Step("", loc[p], <<>>) IN
            /\ Log(p, r.evs)
            /\ IF r.exc = ""
               THEN /\ loc' = [loc EXCEPT ![p] = r.val]
                    /\ Goto(p, "done")
                    /\ ret' = [ret EXCEPT ![p] = Returned(Results(r.val, cfg))]
               ELSE Fail(p, r.exc) /\ UNCHANGED loc
       ELSE /\ Goto(p, "done")
            /\ ret' = [ret EXCEPT ![p] = Returned(NoValue)]
            /\ UNCHANGED <<loc, hist>>
    /\ UNCHANGED <<jac, cfg, comm, my, gath>>

DoStart == \E p \in Procs : Start(p)
DoStage1Enter == \E p \in Procs : Stage1Enter(p)
DoStage1Analyse == \E p \in Procs : Stage1Analyse(p)
DoStage1Gather == \E p \in Procs : GatherCall(p, "s1info") \/ GatherCall(p, "s1J")
DoStage1Root == \E p \in Procs : Stage1Root(p)
DoStage2Enter == \E p \in Procs : Stage2Enter(p)
DoStage2Analyse == \E p \in Procs : Stage2Analyse(p)
DoStage2Gather ==
    \E p \in Procs : GatherCall(p, "s2info") \/ GatherCall(p, "s2J") \/ GatherCall(p, "s2Jaff")
DoStage2Root == \E p \in Procs : Stage2Root(p)
DoFinal == \E p \in Procs : Final(p)

Next ==
    \/ DoStart
    \/ DoStage1Enter
    \/ DoStage1Analyse
    \/ DoStage1Gather
    \/ DoStage1Root
    \/ DoStage2Enter
    \/ DoStage2Analyse
    \/ DoStage2Gather
    \/ DoStage2Root
    \/ DoFinal

Spec == Init /\ [][Next]_vars

\* The runs with a communicator of several ranks.
FairComms == { [q \in 0..(n - 1) |-> Comm(0, q, n)] : n \in 2..MaxWorkers }
FairInit ==
    /\ jac = JacIdle
    /\ cfg \in Cfgs
    /\ comm \in FairComms
    /\ InitProcs
\* A worker can take a step unless it has returned, has raised or waits in
\* a gather: CanStep is the enabling condition of Next.
Waiting(p) == \E site \in Sites : pc[p] = SiteWait(site)
CanStep == \E p \in Procs : pc[p] \notin {"done", "failed"} /\ ~Waiting(p)
\* Every worker is a process that keeps running: weak fairness of Next,
\* written with the enabling condition of Next spelled out, and weak
\* fairness of the steps every worker takes, the start and the gather calls.
SpecFair ==
    /\ FairInit /\ [][Next]_vars
    /\ ([]<>(~CanStep) \/ []<><<Next>>_vars)
    /\ WF_vars(DoStart) /\ WF_vars(DoStage1Gather) /\ WF_vars(DoStage2Gather)

\* ------------------------------------- the same call, without and with comm
\* Two calls with the same arguments but for comm: call 0 with comm=None,
\* call 1 with a communicator of its own that has one rank.  The calls share
\* nothing; call 1 is made when call 0 has ended.
TwinComm == [q \in {0, 1} |-> IF q = 0 THEN NoComm(0) ELSE Comm(1, 0, 1)]

TwinInit ==
    /\ jac = JacIdle
    /\ cfg \in Cfgs
    /\ comm = TwinComm
    /\ InitProcs

Ended(p) == pc[p] \in {"done", "failed"}
TwinTurn == Ended(0) \/ (pc'[1] = pc[1] /\ my'[1] = my[1])

TwinNext ==
    \/ DoStart /\ TwinTurn
    \/ DoStage1Enter /\ TwinTurn
    \/ DoStage1Analyse /\ TwinTurn
    \/ DoStage1Gather /\ TwinTurn
    \/ DoStage1Root /\ TwinTurn
    \/ DoStage2Enter /\ TwinTurn
    \/ DoStage2Analyse /\ TwinTurn
    \/ DoStage2Gather /\ TwinTurn
    \/ DoStage2Root /\ TwinTurn
    \/ DoFinal /\ TwinTurn

SpecTwin == TwinInit /\ [][TwinNext]_vars

\* ---------------------------------------------- the functions, applied
\* The inputs: every same-basis pair with every combination of signs, and
\* for every prep a pair whose measurement basis differs on the first qubit.

JacInputs ==
    UNION {
      {<<p, [rep |-> p.rep, signs |-> s]>> : p \in PauliStates(n), s \in SeqsOf(Signs, n)}
      \cup
      {<<p, [rep |-> [i \in 1..n |-> IF i = 1 THEN NextPauli(p.rep[i]) ELSE p.rep[i]],
             signs |-> p.signs]>> : p \in {q \in PauliStates(n) : \A i \in 1..n : q.signs[i] = 1}}
      : n \in 1..MaxQubits }

NQ(st) == Len(st.prep.rep)

JacInit ==
    /\ \E pm \in JacInputs :
         jac = [prep |-> pm[1], meas |-> pm[2], fn |-> "none", outcome |-> <<>>, row |-> <<>>]
    /\ cfg = NoCfg
    /\ comm = NoCommAtAll
    /\ InitProcs

\* stochastic_outcome for every error
JacStochasticOutcome ==
    /\ jac.fn = "none"
    /\ jac' = [jac EXCEPT !.fn = "stochastic_outcome",
                 !.row = [e \in PauliOps(NQ(jac)) |-> StochasticOutcome(jac.prep, e, jac.meas)]]
    /\ UNCHANGED orchVars

\* a row of stochastic_jac_element over every error, for one outcome
JacStochasticElement ==
    /\ jac.fn = "none"
    /\ \E out \in Outcomes(NQ(jac)) :
         jac' = [jac EXCEPT !.fn = "stochastic_jac_element", !.outcome = out,
                   !.row = [e \in PauliOps(NQ(jac)) |->
                              StochasticJacElement(jac.prep, e, jac.meas, out)]]
    /\ UNCHANGED orchVars

\* a row of affine_jac_element over every error, for one outcome
JacAffineElement ==
    /\ jac.fn = "none"
    /\ \E out \in Outcomes(NQ(jac)) :
         jac' = [jac EXCEPT !.fn = "affine_jac_element", !.outcome = out,
                   !.row = [e \in PauliOps(NQ(jac)) |->
                              AffineJacElement(jac.prep, e, jac.meas, out)]]
    /\ UNCHANGED orchVars

\* stochastic_jac_element and affine_jac_element over every error and every
\* outcome string
JacAllOutcomes ==
    /\ jac.fn = "none"
    /\ jac' = [jac EXCEPT !.fn = "all_outcomes",
                 !.row = [e \in PauliOps(NQ(jac)) |->
                            [sto |-> [out \in Outcomes(NQ(jac)) |->
                                        StochasticJacElement(jac.prep, e, jac.meas, out)],
                             aff |-> [out \in Outcomes(NQ(jac)) |->
                                        AffineJacElement(jac.prep, e, jac.meas, out)]]]]
    /\ UNCHANGED orchVars

JacNext == JacStochasticOutcome \/ JacStochasticElement \/ JacAffineElement \/ JacAllOutcomes

SpecJac == JacInit /\ [][JacNext]_vars

\* ------------------------------------ idle_tomography_fidpairs, applied
\* The arguments: maxweight (nQubits = maxweight, so that a template is its
\* own tiling), the three include flags, a ham_tmpl and the preferred signs.
HamTmplChoices ==
    { HamTmplDefault, HamTmplWeight1, << <<"X">>, <<"Z", "Y">> >>, << <<"X", "Y", "Z">> >>,
      << <<"Y", "Y">>, <<"X", "Z">> >>, <<>> }
PrefSigns == SeqsOf({"+", "-"}, 3)
MeasPrefSigns == { <<"+", "+", "+">>, <<"-", "+", "-">> }

FidInit ==
    /\ jac \in { [fn |-> "none", maxweight |-> mw, include_hamiltonian |-> h,
                  include_stochastic |-> st, include_affine |-> a, ham_tmpl |-> t,
                  prep_signs |-> ps, meas_signs |-> ms,
                  sto_tmpl_pairs |-> <<>>, ham_tmpl_pairs |-> <<>>, res |-> Ok(<<>>)]
                 : mw \in 0..MaxWeight, h \in BOOLEAN, st \in BOOLEAN, a \in BOOLEAN,
                   t \in HamTmplChoices, ps \in PrefSigns, ms \in MeasPrefSigns }
    /\ cfg = NoCfg
    /\ comm = NoCommAtAll
    /\ InitProcs

\* the call; sto_tmpl_pairs and ham_tmpl_pairs are the locals of that name
\* as far as the call builds them
FidGenerate ==
    /\ jac.fn = "none"
    /\ LET flips == Flips(jac.maxweight, jac.include_affine)
           res == IdleTomographyFidpairs(jac.maxweight, jac.maxweight, jac.include_hamiltonian, jac.include_stochastic, jac.include_affine, jac.ham_tmpl, jac.prep_signs, jac.meas_signs)
       IN jac' = [jac EXCEPT
                    !.fn = "idle_tomography_fidpairs",
                    !.res = res,
                    !.sto_tmpl_pairs =
                        IF jac.include_stochastic /\ IsOk(flips)
                        THEN StoTmplPairs(flips.val, jac.maxweight, jac.prep_signs, jac.meas_signs)
                        ELSE <<>>,
                    !.ham_tmpl_pairs =
                        IF jac.include_hamiltonian /\ IsOk(res)
                        THEN HamTmplPairs(jac.ham_tmpl, jac.prep_signs, jac.meas_signs)
                        ELSE <<>>]
    /\ UNCHANGED orchVars

SpecFid == FidInit /\ [][FidGenerate]_vars

\* ------------------------------- preferred_signs_from_paulidict, applied
\* The entries a dictionary has for one letter: "+L" absent or of 0..MaxGates
\* gates, bare "L" absent or of one gate, "-L" absent or of 1..MaxGates gates.
Entries(k, vs) == {EmptyDict} \cup {DictPut(EmptyDict, k, v) : v \in vs}
LetterEntries(let) ==
    { p @@ b @@ m :
        p \in Entries(Key("+", let), {GateTuple("Gx", n) : n \in 0..MaxGates}),
        b \in Entries(Key("", let), {GateTuple("Gy", 1)}),
        m \in Entries(Key("-", let), {GateTuple("Gx", n) : n \in 1..MaxGates}) }
SignDicts == { x @@ y @@ z : x \in LetterEntries("X"), y \in LetterEntries("Y"), z \in LetterEntries("Z") }

SignsInit ==
    /\ jac \in { [fn |-> "none", pauliDict |-> d, res |-> Ok(<<>>)] : d \in SignDicts }
    /\ cfg = NoCfg
    /\ comm = NoCommAtAll
    /\ InitProcs

SignsInfer ==
    /\ jac.fn = "none"
    /\ jac' = [jac EXCEPT !.fn = "preferred_signs_from_paulidict",
                 !.res = PreferredSignsFromPaulidict(jac.pauliDict)]
    /\ UNCHANGED orchVars

SpecSigns == SignsInit /\ [][SignsInfer]_vars

\* ------------------- fidpairs_to_pauli_fidpairs and the round trip, applied
Item(k, v) == [key |-> k, val |-> v]
TupleOf(gates) == [isTuple |-> TRUE, items |-> gates]
\* the example dictionaries of fidpairs_to_pauli_fidpairs
ExamplePrepDict ==
    << Item(<<"X">>, TupleOf(<<"Gy">>)), Item(<<"Y">>, TupleOf(<<"Gx", "Gx", "Gx">>)), Item(<<"Z">>, TupleOf(<<>>)),
       Item(<<"-", "X">>, TupleOf(<<"Gy", "Gy", "Gy">>)), Item(<<"-", "Y">>, TupleOf(<<"Gx">>)),
       Item(<<"-", "Z">>, TupleOf(<<"Gx", "Gx">>)) >>
ExampleMeasDict ==
    << Item(<<"X">>, TupleOf(<<"Gy", "Gy", "Gy">>)), Item(<<"Y">>, TupleOf(<<"Gx">>)), Item(<<"Z">>, TupleOf(<<>>)),
       Item(<<"-", "X">>, TupleOf(<<"Gy">>)), Item(<<"-", "Y">>, TupleOf(<<"Gx", "Gx", "Gx">>)),
       Item(<<"-", "Z">>, TupleOf(<<"Gx", "Gx">>)) >>
\* only "+L" entries
PlusOnlyDict == << Item(<<"+", "X">>, TupleOf(<<"Gy">>)), Item(<<"+", "Y">>, TupleOf(<<"Gx">>)), Item(<<"+", "Z">>, TupleOf(<<>>)) >>
\* "+X" and bare "X" with the same gates
AliasDict ==
    << Item(<<"+", "X">>, TupleOf(<<"Gy">>)), Item(<<"X">>, TupleOf(<<"Gy">>)), Item(<<"Y">>, TupleOf(<<"Gx", "Gx", "Gx">>)),
       Item(<<"Z">>, TupleOf(<<>>)), Item(<<"-", "X">>, TupleOf(<<"Gy", "Gy", "Gy">>)),
       Item(<<"-", "Y">>, TupleOf(<<"Gx">>)), Item(<<"-", "Z">>, TupleOf(<<"Gx", "Gx">>)) >>
\* an entry for every signed letter, "X" and "-X" with the same gates
SharedTupleDict ==
    << Item(<<"X">>, TupleOf(<<"Gy">>)), Item(<<"Y">>, TupleOf(<<"Gx", "Gx", "Gx">>)), Item(<<"Z">>, TupleOf(<<>>)),
       Item(<<"-", "X">>, TupleOf(<<"Gy">>)), Item(<<"-", "Y">>, TupleOf(<<"Gx">>)),
       Item(<<"-", "Z">>, TupleOf(<<"Gx", "Gx">>)) >>
\* no entry for Y
PartialDict == << Item(<<"X">>, TupleOf(<<"Gy">>)), Item(<<"Z">>, TupleOf(<<>>)), Item(<<"-", "Z">>, TupleOf(<<"Gx", "Gx">>)) >>
\* a key that does not end in X, Y or Z; a value that is a list
BadKeyDict == Append(ExamplePrepDict, Item(<<"+", "W">>, TupleOf(<<"Gx", "Gy">>)))
BadValueDict == Append(PlusOnlyDict, Item(<<"-", "Z">>, [isTuple |-> FALSE, items |-> <<"Gx", "Gx">>]))

DictPairs ==
    { <<ExamplePrepDict, ExampleMeasDict>>, <<PlusOnlyDict, PlusOnlyDict>>,
      <<AliasDict, ExampleMeasDict>>, <<SharedTupleDict, ExampleMeasDict>>,
      <<ExamplePrepDict, SharedTupleDict>>, <<PartialDict, ExampleMeasDict>>,
      <<BadKeyDict, ExampleMeasDict>>, <<ExamplePrepDict, BadValueDict>>,
      <<ExampleMeasDict, ExamplePrepDict>>, <<AliasDict, PlusOnlyDict>> }

\* gate strings: a one-component label per gate, a parallel label, a
\* two-qubit gate, a qubit label that is no integer
Qubit(i) == [isInt |-> TRUE, id |-> i]
Lbl(name, q) == << [name |-> name, sslbls |-> <<Qubit(q)>>] >>
GateStringPairs ==
    { << <<Lbl("Gy", 0)>>, <<Lbl("Gx", 0)>> >>,
      << <<>>, <<>> >>,
      << << <<[name |-> "Gy", sslbls |-> <<Qubit(0)>>], [name |-> "Gx", sslbls |-> <<Qubit(1)>>]>> >>,
         <<Lbl("Gx", 1), Lbl("Gx", 0), Lbl("Gx", 1)>> >>,
      << <<Lbl("Gx", 0), Lbl("Gy", 0)>>, <<Lbl("Gy", 0)>> >>,
      << <<Lbl("Gy", 0)>>, << <<[name |-> "Gcnot", sslbls |-> <<Qubit(0), Qubit(1)>>]>> >> >>,
      << << <<[name |-> "Gy", sslbls |-> << [isInt |-> FALSE, id |-> 0] >>]>> >>, <<>> >> }
GateStringLists == UNION { SeqsOf(GateStringPairs, k) : k \in 0..MaxList }

\* the ham_tmpl used for maxErrWeight n
HamTmplFor(n) ==
    IF n = 1 THEN HamTmplWeight1 ELSE IF n = 2 THEN HamTmplDefault
    ELSE << [i \in 1..n |-> BasisLetters[((i - 1) % 3) + 1]] >>

TransInit ==
    /\ jac \in { [fn |-> "none", nQubits |-> n, pauliDicts |-> dp, fidpairsList |-> l,
                  pauli_fidpairs |-> Ok(<<>>), trip |-> <<>>, res |-> Ok(<<>>)]
                 : n \in 1..MaxQubits, dp \in DictPairs, l \in GateStringLists }
    /\ cfg = NoCfg
    /\ comm = NoCommAtAll
    /\ InitProcs

\* fidpairs_to_pauli_fidpairs(fidpairsList, pauliDicts, nQubits)
TransConvert ==
    /\ jac.fn = "none"
    /\ jac' = [jac EXCEPT !.fn = "fidpairs_to_pauli_fidpairs",
                 !.res = FidpairsToPauliFidpairs(jac.fidpairsList, jac.pauliDicts, jac.nQubits)]
    /\ UNCHANGED orchVars

SpecTrans == TransInit /\ [][TransConvert]_vars

TripInit ==
    /\ jac \in { [fn |-> "none", nQubits |-> n, pauliDicts |-> dp, fidpairsList |-> <<>>,
                  pauli_fidpairs |-> Ok(<<>>), trip |-> <<>>, res |-> Ok(<<>>)]
                 : n \in 1..MaxQubits, dp \in DictPairs }
    /\ cfg = NoCfg
    /\ comm = NoCommAtAll
    /\ InitProcs

\* the generated pairs, translated to gate strings and back: trip[i] is the
\* result for the i-th pair alone, res the result for the whole list
TripRoundTrip ==
    /\ jac.fn = "none"
    /\ \E h \in BOOLEAN, st \in BOOLEAN, a \in BOOLEAN :
         LET n == jac.nQubits
             gen == AutoPauliFidpairs(n, jac.pauliDicts, n, h, st, a, HamTmplFor(n))
             pairs == IF IsOk(gen) THEN gen.val ELSE <<>>
             all == Fidpairs(pairs, jac.pauliDicts)
         IN jac' = [jac EXCEPT
                      !.fn = "round_trip",
                      !.pauli_fidpairs = gen,
                      !.trip = [i \in DOMAIN pairs |->
                                  LET one == Fidpairs(<<pairs[i]>>, jac.pauliDicts)
                                  IN IF IsOk(one)
                                     THEN FidpairsToPauliFidpairs(one.val, jac.pauliDicts, n)
                                     ELSE one],
                      !.res = IF ~IsOk(gen) THEN gen
                              ELSE IF ~IsOk(all) THEN all
                              ELSE FidpairsToPauliFidpairs(all.val, jac.pauliDicts, n)]
    /\ UNCHANGED orchVars

SpecTrip == TripInit /\ [][TripRoundTrip]_vars


\* ======================================================================
\* Part 3: the fit weights of the two curve-fit estimators
\* ======================================================================
\* A number is kept exact, as a fraction [num, den] with den > 0.  A dataset
\* row is its counts dict: a function from some outcome strings to counts.
ZeroDivisionError == "ZeroDivisionError"
Rat(a, b) == [num |-> a, den |-> b]
RowTotal(cnts) ==
    LET RECURSIVE Add(_)
        Add(S) == IF S = {} THEN 0 ELSE LET x == CHOOSE x \in S : TRUE IN cnts[x] + Add(S \ {x})
    IN Add(DOMAIN cnts)
CountsGet(cnts, key) == IF key \in DOMAIN cnts THEN cnts[key] ELSE 0
CountWhere(cnts, S) ==
    LET RECURSIVE Add(_)
        Add(R) == IF R = {} THEN 0 ELSE LET x == CHOOSE x \in R : TRUE IN cnts[x] + Add(R \ {x})
    IN Add(S \cap DOMAIN cnts)

\* numpy: sqrt(total) / sqrt(q) for q = fp*(1-fp) as a fraction qn/qd.  The
\* quotient is kept squared.  A zero q gives inf (nan when total is zero
\* too), a negative q gives nan: numpy divides and takes roots of floats
\* without raising.
WeightFrom(total, qn, qd) ==
    IF qn < 0 THEN [kind |-> "nan", sq |-> Rat(0, 1)]
    ELSE IF qn = 0 THEN [kind |-> IF total = 0 THEN "nan" ELSE "inf", sq |-> Rat(0, 1)]
    ELSE [kind |-> "finite", sq |-> Rat(total * qd, qn)]

\* a variant of freq_and_weight that weighs with the raw frequency
FreqAndWeight_RawFrequency(cnts, outcome) ==
    LET total == RowTotal(cnts)
        cnt == CountsGet(cnts, outcome)
    IN IF total = 0 THEN Raise(ZeroDivisionError, <<>>)
       ELSE Ok([f |-> Rat(cnt, total), fp |-> Rat(cnt, total),
                wt |-> WeightFrom(total, Abs(cnt * (total - cnt)), total * total)])

\* get_obs_stochastic_err_rate.freq_and_weight (lines 435-441)
FreqAndWeight(cnts, outcome) ==
    LET total == RowTotal(cnts)
        cnt == CountsGet(cnts, outcome)
        fpn == cnt + 1
        fpd == total + 2
    IN IF total = 0 THEN Raise(ZeroDivisionError, <<>>)
       ELSE Ok([f |-> Rat(cnt, total), fp |-> Rat(fpn, fpd),
                wt |-> WeightFrom(total, Abs(fpn * (fpd - fpn)), fpd * fpd)])

\* get_obs_hamiltonian_err_rate.unsigned_exptn_and_weight (lines 487-515):
\* fp = 0.5 + 0.5*(diff + 1)/(total + 2) = (total + 3 + diff) / (2*(total + 2))
UnsignedExptnAndWeight(cnts, observed_indices) ==
    LET total == RowTotal(cnts)
        first == IF Len(observed_indices) = 1
                 THEN {o \in DOMAIN cnts : o[observed_indices[1]] = "0"}
                 ELSE {o \in DOMAIN cnts : o[observed_indices[1]] = o[observed_indices[2]]}
        diff == CountWhere(cnts, first) - CountWhere(cnts, (DOMAIN cnts) \ first)
        fpn == total + 3 + diff
        fpd == 2 * (total + 2)
    IN IF Len(observed_indices) \notin {1, 2} THEN Raise(NotImplementedError, <<>>)
       ELSE IF total = 0 THEN Raise(ZeroDivisionError, <<>>)
       ELSE Ok([exptn |-> Rat(diff, total), fp |-> Rat(fpn, fpd),
                wt |-> WeightFrom(total, fpn * (fpd - fpn), fpd * fpd)])

\* the dataset rows: counts up to MaxCount for some of the outcome strings
\* of one or two qubits
WeightQubits == {1, 2}
DatasetRows(n) == UNION { [S -> 0..MaxCount] : S \in SUBSET Outcomes(n) }
\* the qubits an observable does not trace over, in increasing order
ObservedIndices(n) ==
    { <<>> } \cup { <<i>> : i \in 1..n } \cup { ij \in (1..n) \X (1..n) : ij[1] < ij[2] }
NotCalled == Raise("not called", <<>>)

WtInit ==
    /\ \E n \in WeightQubits : \E cnts \in DatasetRows(n) : \E out \in Outcomes(n) :
       \E ind \in ObservedIndices(n) :
         jac = [n |-> n, cnts |-> cnts, outcome |-> out, observed_indices |-> ind,
                sto |-> NotCalled, ham |-> NotCalled]
    /\ cfg = NoCfg
    /\ comm = NoCommAtAll
    /\ InitProcs

WtStochastic ==
    /\ jac.sto = NotCalled
    /\ jac' = [jac EXCEPT !.sto = FreqAndWeight(jac.cnts, jac.outcome)]
    /\ UNCHANGED orchVars

WtHamiltonian ==
    /\ jac.ham = NotCalled
    /\ jac' = [jac EXCEPT !.ham = UnsignedExptnAndWeight(jac.cnts, jac.observed_indices)]
    /\ UNCHANGED orchVars

SpecWt == WtInit /\ [][WtStochastic \/ WtHamiltonian]_vars

\* ======================================================================
\* Properties of do_idle_tomography (specification Spec; C3: SpecTwin)
\* ======================================================================
HasEv(p, ev, stage) == \E i \in DOMAIN hist[p] : hist[p][i].ev = ev /\ hist[p][i].stage = stage
InversionEvents == {"rankcheck", "warn", "pinv", "correct"}
Stage2Sites == {"s2info", "s2J", "s2Jaff"}
AllAbsent == [site \in Sites |-> Absent]

\* C1: with extract_affine and without extract_stochastic the call of every
\* worker can only end with ValueError, whatever extract_hamiltonian and the
\* jacobian mode: no worker analyses a fiducial pair, calls a gather, checks a
\* rank or inverts, none holds a rate, none gets past the Stage-1 branch, none
\* is stuck before it, and none returns.
C1_AffineWithoutStochasticFails ==
    (cfg.extract_affine /\ ~cfg.extract_stochastic) =>
      \A p \in Procs :
        /\ hist[p] = <<>>
        /\ my[p] = MyEmpty
        /\ gath[p] = AllAbsent
        /\ loc[p].info_list = <<>> /\ loc[p].J_list = <<>> /\ loc[p].Jaff_list = <<>>
        /\ loc[p].intrinsic_rates = EmptyDict
        /\ ret[p].kind # "returned"
        /\ pc[p] \in {"start", "stage1", "failed"}
        /\ pc[p] = "failed" => ret[p] = Raised(ValueError)
        /\ pc[p] = "start" => ENABLED Start(p)
        /\ pc[p] = "stage1" => ENABLED Stage1Enter(p)

\* C1 witness: two workers called with affine and Hamiltonian but without
\* stochastic extraction in "together" mode, both ended with ValueError
C1_Witness ==
    /\ cfg.extract_affine /\ ~cfg.extract_stochastic /\ cfg.extract_hamiltonian
    /\ cfg.jacmode = "together"
    /\ Cardinality(Procs) = 2
    /\ \A p \in Procs : pc[p] = "failed" /\ ret[p] = Raised(ValueError)

\* the place of an event in the order of a run
EvRank(e) ==
    CASE e.ev = "analyse" /\ e.stage = "stochastic" -> 1
      [] e.ev = "gather" /\ e.stage = "s1info" -> 2
      [] e.ev = "gather" /\ e.stage = "s1J" -> 3
      [] e.ev = "rankcheck" /\ e.stage = "stochastic" -> 4
      [] e.ev = "warn" /\ e.stage = "stochastic" -> 5
      [] e.ev = "pinv" /\ e.stage = "stochastic" -> 6
      [] e.ev = "analyse" /\ e.stage = "hamiltonian" -> 7
      [] e.ev = "gather" /\ e.stage = "s2info" -> 8
      [] e.ev = "gather" /\ e.stage = "s2J" -> 9
      [] e.ev = "gather" /\ e.stage = "s2Jaff" -> 10
      [] e.ev = "correct" /\ e.stage = "hamiltonian" -> 11
      [] e.ev = "rankcheck" /\ e.stage = "hamiltonian" -> 12
      [] e.ev = "warn" /\ e.stage = "hamiltonian" -> 13
      [] e.ev = "pinv" /\ e.stage = "hamiltonian" -> 14
      [] e.ev = "rankcheck" /\ e.stage = "joint" -> 15
      [] e.ev = "warn" /\ e.stage = "joint" -> 16
      [] e.ev = "pinv" /\ e.stage = "joint" -> 17
      [] OTHER -> 0
\* 1: StochasticStage, 2: HamiltonianStage, 3: JointInversion
EvPhase(e) == IF EvRank(e) <= 6 THEN 1 ELSE IF EvRank(e) <= 14 THEN 2 ELSE 3
PcPhase(l) ==
    CASE l = "start" -> 0
      [] l \in {"stage1", "s1loop", "wait_s1info", "s1J", "wait_s1J", "s1root"} -> 1
      [] l \in {"stage2", "s2loop", "wait_s2info", "s2J", "wait_s2J", "s2Jaff", "wait_s2Jaff",
                "s2root"} -> 2
      [] l = "final" -> 3
      [] OTHER -> 4

\* the pairs of worker p's slice in a stage, and those its events say it analysed
SliceIndices(fidpairs, p) ==
    LET sl == DistributeIndices(Enumerate(fidpairs), comm[p]) IN [i \in 1..Len(sl) |-> sl[i][1]]
Analysed(p, stage) ==
    LET evs == SelectSeq(hist[p], LAMBDA e : e.ev = "analyse" /\ e.stage = stage)
    IN [i \in 1..Len(evs) |-> evs[i].ifp]
\* worker p is past Stage 1, or past Stage 2
PastStage(p, k) ==
    \/ pc[p] # "failed" /\ PcPhase(pc[p]) > k
    \/ \E i \in DOMAIN hist[p] : EvPhase(hist[p][i]) > k
Stage1Complete(p) ==
    /\ Analysed(p, "stochastic") = SliceIndices(Stage1Fidpairs(p).val, p)
    /\ ~comm[p].none => HasEv(p, "gather", "s1info") /\ HasEv(p, "gather", "s1J")
Stage2Complete(p) ==
    /\ Analysed(p, "hamiltonian") = SliceIndices(Stage2Fidpairs(p).val, p)
    /\ ~comm[p].none =>
         /\ HasEv(p, "gather", "s2info") /\ HasEv(p, "gather", "s2J")
         /\ cfg.extract_affine => HasEv(p, "gather", "s2Jaff")

\* C2: on every worker the events of a run come in the order Stage-1
\* per-pair work, Stage-1 gathers, Stage-1 inversion, Stage-2 per-pair work,
\* Stage-2 gathers, Stage-2 inversion, joint inversion, each pair and each
\* gather at most once; a worker's position agrees with that order; a worker
\* past Stage 1 has analysed all its Stage-1 pairs and made the Stage-1
\* gathers if the stage is requested, and likewise for Stage 2 when it is at
\* the final block; a stage whose flag is off leaves no per-pair work and no
\* gather; the joint inversion happens only in "together" mode.
C2_StageOrder ==
    \A p \in Procs :
      LET h == hist[p] IN
      /\ \A i, j \in DOMAIN h : i < j =>
           \/ EvRank(h[i]) < EvRank(h[j])
           \/ /\ EvRank(h[i]) = EvRank(h[j]) /\ h[i].ev = "analyse" /\ h[i].ifp < h[j].ifp
      /\ \A i \in DOMAIN h :
           /\ EvRank(h[i]) > 0
           /\ pc[p] # "failed" => EvPhase(h[i]) <= PcPhase(pc[p])
           /\ EvPhase(h[i]) = 1 => cfg.extract_stochastic
           /\ EvPhase(h[i]) = 2 => cfg.extract_hamiltonian
           /\ EvPhase(h[i]) = 3 => cfg.jacmode = "together"
      /\ (PastStage(p, 1) /\ cfg.extract_stochastic) => Stage1Complete(p)
      /\ (PastStage(p, 2) /\ cfg.extract_hamiltonian) => Stage2Complete(p)
      /\ (PastStage(p, 2) /\ cfg.extract_stochastic) => Stage1Complete(p)
      /\ pc[p] \in {"s1loop", "wait_s1info", "s1J", "wait_s1J", "s1root"} => cfg.extract_stochastic
      /\ pc[p] \in {"s2loop", "wait_s2info", "s2J", "wait_s2J", "s2Jaff", "wait_s2Jaff", "s2root"}
           => cfg.extract_hamiltonian

\* C2 witness: a two-worker run in "together" mode with the three classes
\* requested that went through both stages and the joint inversion and ended
C2_Witness ==
    /\ cfg.jacmode = "together"
    /\ cfg.extract_stochastic /\ cfg.extract_affine /\ cfg.extract_hamiltonian
    /\ Cardinality(Procs) = 2
    /\ \A p \in Procs :
         /\ pc[p] = "done"
         /\ Analysed(p, "stochastic") # <<>> /\ Analysed(p, "hamiltonian") # <<>>
         /\ HasEv(p, "gather", "s1J") /\ HasEv(p, "gather", "s2Jaff")
    /\ \E p \in Procs : HasEv(p, "pinv", "joint")

NonGather(h) == SelectSeq(h, LAMBDA e : e.ev # "gather")

\* C3: when the call with comm=None and the call with a one-rank communicator
\* have both ended, they have analysed the same pairs in the same order,
\* rank-checked the same matrices and inverted against the same observed-rate
\* vectors (their events but for the gathers are the same), hold the same
\* lists, matrices and rates, and have returned the same results object or
\* raised the same exception.
C3_NoCommIsOneWorker ==
    (Ended(0) /\ Ended(1)) =>
      /\ NonGather(hist[0]) = NonGather(hist[1])
      /\ my[0] = my[1]
      /\ loc[0] = loc[1]
      /\ ret[0] = ret[1]

\* C3 witness: both calls returned a results object with the rates of the
\* three classes, in "separate" mode
C3_Witness ==
    /\ comm = TwinComm
    /\ cfg.jacmode = "separate"
    /\ \A p \in {0, 1} :
         /\ ret[p].kind = "returned" /\ ~ret[p].value.none
         /\ DOMAIN ret[p].value.intrinsic_rates = {"hamiltonian", "stochastic", "affine"}
         /\ Len(Analysed(p, "stochastic")) > 1

\* the gathers a stage's inversion needs
GathersOf(stage) ==
    CASE stage = "stochastic" -> Stage1Sites
      [] stage = "hamiltonian" -> IF cfg.extract_affine THEN Stage2Sites ELSE {"s2info", "s2J"}
      [] OTHER -> (IF cfg.extract_stochastic THEN Stage1Sites ELSE {})
                  \cup (IF ~cfg.extract_hamiltonian THEN {}
                        ELSE IF cfg.extract_affine THEN Stage2Sites ELSE {"s2info", "s2J"})

\* C4: in a run with a communicator, a rank other than 0 never checks a
\* rank, inverts, corrects or holds an intrinsic rate, and if it returns it
\* returns None; on rank 0 every rank check, warning, correction and
\* inversion of a stage comes after rank 0's gathers of that stage, to which
\* every rank has contributed, every rate it holds comes from an inversion
\* it made, and what it returns is a results object.
C4_CoordinatorOnly ==
    \A p \in Procs : ~comm[p].none =>
      LET h == hist[p] IN
      /\ comm[p].rank # 0 =>
           /\ \A i \in DOMAIN h : h[i].ev \notin InversionEvents
           /\ loc[p].intrinsic_rates = EmptyDict
           /\ ret[p].kind = "returned" => ret[p].value = NoValue
           /\ pc[p] = "done" => ret[p] = Returned(NoValue)
      /\ comm[p].rank = 0 =>
           /\ \A i \in DOMAIN h : h[i].ev \in InversionEvents =>
                \A site \in GathersOf(h[i].stage) :
                  /\ \E j \in 1..(i - 1) : h[j].ev = "gather" /\ h[j].stage = site
                  /\ \A q \in World(p) : gath[q][site].here
           /\ loc[p].intrinsic_rates # EmptyDict => \E i \in DOMAIN h : h[i].ev = "pinv"
           /\ ret[p].kind = "returned" => ~ret[p].value.none
           /\ pc[p] = "done" => ret[p].kind = "returned"

\* C4 witness: a two-rank run in "separate" mode where rank 0 inverted both
\* stages and returned results, and rank 1 returned None
C4_Witness ==
    /\ Cardinality(Procs) = 2
    /\ cfg.jacmode = "separate"
    /\ \E p, q \in Procs :
         /\ ~comm[p].none /\ comm[p].rank = 0 /\ comm[q].rank = 1
         /\ HasEv(p, "pinv", "stochastic") /\ HasEv(p, "pinv", "hamiltonian")
         /\ ret[p].kind = "returned" /\ ~ret[p].value.none
         /\ Analysed(q, "stochastic") # <<>>
         /\ ret[q] = Returned(NoValue)

\* C5: whenever a worker has checked the rank of a design matrix and found
\* it smaller than the number of columns, the call has not failed there: a
\* warning and the pseudo-inversion of that matrix follow the rank check.
C5_RankDeficientIsNotFatal ==
    \A p \in Procs : \A i \in DOMAIN hist[p] :
      LET e == hist[p][i] IN
      (e.ev = "rankcheck" /\ e.J # <<>> /\ MatrixRank(e.J) < NCols(e.J)) =>
        /\ i + 2 <= Len(hist[p])
        /\ hist[p][i + 1].ev = "warn" /\ hist[p][i + 1].stage = e.stage
        /\ hist[p][i + 2].ev = "pinv" /\ hist[p][i + 2].stage = e.stage
        /\ ret[p].exc # NameError

\* a worker whose call ended with an exception raised while it analysed a pair
FailedInAnalysis(p) ==
    /\ pc[p] = "failed"
    /\ hist[p] # <<>> /\ hist[p][Len(hist[p])].ev = "analyse"
\* a worker waiting in a gather that a rank of its communicator, having
\* failed, will never call
BlockedForever(q) ==
    \E site \in Sites : pc[q] = SiteWait(site) /\ \E r \in World(q) : pc[r] = "failed"

\* C6: when the call of some worker has failed while analysing its slice, no
\* worker of the run has returned and none is blocked for ever in a gather.
C6_FatalSurfacedOnEveryWorker ==
    \A p \in Procs : FailedInAnalysis(p) =>
      \A q \in World(p) : ret[q].kind # "returned" /\ ~BlockedForever(q)

Requested(c) ==
    (IF c.extract_hamiltonian THEN {"hamiltonian"} ELSE {})
    \cup (IF c.extract_stochastic THEN {"stochastic"} ELSE {})
    \cup (IF c.extract_affine THEN {"affine"} ELSE {})
\* the column where the block of a class starts: in "together" mode
\* Hamiltonian first, then Stochastic, then Affine; in "separate" mode
\* within the matrix of the class's stage
ColumnOffset(c, cls, nerr) ==
    IF c.jacmode = "together"
    THEN CASE cls = "hamiltonian" -> 0
           [] cls = "stochastic" -> IF c.extract_hamiltonian THEN nerr ELSE 0
           [] cls = "affine" -> (IF c.extract_hamiltonian THEN nerr ELSE 0) + nerr
    ELSE IF cls = "affine" THEN nerr ELSE 0

\* C7: the intrinsic_rates of a results object returned in "separate" or
\* "together" mode has the requested classes as its keys and no other; the
\* value of a class has len(errors) entries, entry k being the entry of the
\* inverted vector at the k-th column of the class's block, a column whose
\* Jacobian elements are all of that class and of errors[k].
C7_IntrinsicRatesLayout ==
    \A p \in Procs :
      (ret[p].kind = "returned" /\ ~ret[p].value.none /\ cfg.jacmode \in {"separate", "together"}) =>
        LET v == ret[p].value
            nerr == Len(v.errors)
        IN /\ v.errors = AllErrors(cfg.nQubits, cfg.maxErrWeight)
           /\ DOMAIN v.intrinsic_rates = Requested(cfg)
           /\ \A cls \in DOMAIN v.intrinsic_rates :
                /\ Len(v.intrinsic_rates[cls]) = nerr
                /\ \A k \in 1..nerr :
                     /\ v.intrinsic_rates[cls][k].col = ColumnOffset(cfg, cls, nerr) + k
                     /\ v.intrinsic_rates[cls][k].labels = {<<cls, v.errors[k]>>}

\* C7 witness: results returned in "together" mode with the three classes
C7_Witness ==
    \E p \in Procs :
      /\ cfg.jacmode = "together"
      /\ ret[p].kind = "returned"
      /\ DOMAIN ret[p].value.intrinsic_rates = {"hamiltonian", "stochastic", "affine"}
      /\ Len(ret[p].value.intrinsic_rates["affine"]) = 3

\* the Stage-1 row the claim describes for a pair and an outcome
C8_Row(fp, out, errors) ==
    [k \in 1..(2 * Len(errors)) |->
       IF k <= Len(errors)
       THEN Elem("stochastic", errors[k], StochasticJacElement(fp[1], errors[k], fp[2], out).val)
       ELSE LET err == errors[k - Len(errors)] IN
            Elem("affine", err, AffineJacElement(fp[1], err, fp[2], out).val)]

\* C8: in "separate" mode with affine extraction every Stage-1 Jacobian row,
\* on the worker that built it and in the matrix the coordinator checks, has
\* 2*len(errors) columns, column k the stochastic element of errors[k] and
\* column len(errors)+k the affine element of errors[k]; and once Stage 1 is
\* inverted, intrinsic_rates['stochastic'] is the first len(errors) entries
\* of the inverted vector and intrinsic_rates['affine'] the last len(errors),
\* entry k of both belonging to errors[k].
C8_SeparateAffineLayout ==
    (cfg.jacmode = "separate" /\ cfg.extract_affine /\ cfg.extract_stochastic) =>
      \A p \in Procs :
        LET errors == loc[p].errors
            nerr == Len(errors)
            rates == loc[p].intrinsic_rates
        IN /\ PcPhase(pc[p]) = 1 =>
                \A i \in DOMAIN my[p].J :
                  my[p].J[i].elems = C8_Row(my[p].J[i].key.pair, my[p].J[i].key.key, errors)
           /\ \A i \in DOMAIN hist[p] :
                (hist[p][i].ev = "rankcheck" /\ hist[p][i].stage = "stochastic") =>
                  \A r \in DOMAIN hist[p][i].J :
                    LET row == hist[p][i].J[r] IN
                    row.elems = C8_Row(row.key.pair, row.key.key, errors)
           /\ HasEv(p, "pinv", "stochastic") =>
                /\ {"stochastic", "affine"} \subseteq DOMAIN rates
                /\ Len(rates["stochastic"]) = nerr /\ Len(rates["affine"]) = nerr
                /\ \A k \in 1..nerr :
                     /\ rates["stochastic"][k] = [col |-> k, labels |-> {<<"stochastic", errors[k]>>}]
                     /\ rates["affine"][k] = [col |-> nerr + k, labels |-> {<<"affine", errors[k]>>}]

\* C8 witness: Stage 1 inverted in "separate" mode with affine extraction,
\* from a matrix of six rows and six columns
C8_Witness ==
    /\ cfg.jacmode = "separate" /\ cfg.extract_affine /\ cfg.extract_stochastic
    /\ \E p \in Procs :
         /\ HasEv(p, "pinv", "stochastic")
         /\ \E i \in DOMAIN hist[p] :
              /\ hist[p][i].ev = "rankcheck" /\ Len(hist[p][i].J) = 6
              /\ Len(hist[p][i].J[1].elems) = 6
         /\ Len(loc[p].intrinsic_rates["affine"]) = 3

\* ======================================================================
\* Properties of the Jacobian element functions (specification SpecJac)
\* ======================================================================
SameBasis(st) == st.prep.rep = st.meas.rep
FlipSign(ps, i) == [ps EXCEPT !.signs[i] = -ps.signs[i]]
OneQubit(ps, i) == [rep |-> <<ps.rep[i]>>, signs |-> <<ps.signs[i]>>]

\* C9: for prep and meas with the same basis letter P on a qubit and every
\* error letter E, stochastic_outcome gives bit "0" on that qubit when the
\* prep sign equals the meas sign and P commutes with E; flipping the prep
\* sign alone or the meas sign alone flips the bit, flipping both restores
\* it, replacing a commuting E by a letter that anticommutes with P flips
\* it, and the bit is the one the qubit gives on its own (it depends on no
\* other qubit).
C9_StochasticOutcomeBits ==
    (jac.fn = "stochastic_outcome" /\ SameBasis(jac)) =>
      \A e \in DOMAIN jac.row :
        /\ IsOk(jac.row[e])
        /\ \A i \in 1..NQ(jac) :
             LET bit == jac.row[e].val[i]
                 P == jac.prep.rep[i]
                 bitOf(pr, er, me) == StochasticOutcome(pr, er, me).val[i]
             IN /\ bit \in Bits
                /\ (jac.prep.signs[i] = jac.meas.signs[i] /\ CommuteParity(P, e[i]) = 1)
                      => bit = "0"
                /\ bitOf(FlipSign(jac.prep, i), e, jac.meas) # bit
                /\ bitOf(jac.prep, e, FlipSign(jac.meas, i)) # bit
                /\ bitOf(FlipSign(jac.prep, i), e, FlipSign(jac.meas, i)) = bit
                /\ CommuteParity(P, e[i]) = 1 =>
                     \A E2 \in Letters : CommuteParity(P, E2) = -1 =>
                        bitOf(jac.prep, [e EXCEPT ![i] = E2], jac.meas) # bit
                /\ StochasticOutcome(OneQubit(jac.prep, i), <<e[i]>>,
                                     OneQubit(jac.meas, i)).val[1] = bit

\* C9 witness: a two-qubit same-basis pair whose signs differ on one qubit,
\* with the outcome of an error that anticommutes on the first qubit computed
C9_Witness ==
    /\ jac.fn = "stochastic_outcome" /\ SameBasis(jac) /\ NQ(jac) = 2
    /\ jac.prep.rep = <<"X", "Z">>
    /\ jac.prep.signs = <<1, 1>> /\ jac.meas.signs = <<1, -1>>
    /\ jac.row[<<"Y", "I">>] = Ok(<<"1", "1">>)

\* the per-qubit rule of affine_jac_element as the claim states it
C10_Rule(s1, P, e, s2, b) ==
    LET outsign == IF b = "0" THEN 1 ELSE -1 IN
    IF e = "I" THEN (IF s1 * s2 * outsign = 1 THEN 1 ELSE 0)
    ELSE IF e # P THEN 0
    ELSE IF b = "0" THEN s2 ELSE -s2

\* C10: affine_jac_element is the product over qubits of the per-qubit rule;
\* with the all-I error it is 1 exactly when prepSign*measSign*outsign = 1 on
\* every qubit and 0 otherwise; the result is always in {-1, 0, 1}.
C10_AffineJacElementRule ==
    (jac.fn = "affine_jac_element" /\ SameBasis(jac)) =>
      \A e \in DOMAIN jac.row :
        LET n == NQ(jac)
            outsign(i) == IF jac.outcome[i] = "0" THEN 1 ELSE -1
        IN /\ IsOk(jac.row[e])
           /\ jac.row[e].val =
                Prod([i \in 1..n |-> C10_Rule(jac.prep.signs[i], jac.prep.rep[i], e[i],
                                              jac.meas.signs[i], jac.outcome[i])])
           /\ jac.row[e].val \in {-1, 0, 1}
           /\ (\A i \in 1..n : e[i] = "I") =>
                 jac.row[e].val =
                   (IF \A i \in 1..n : jac.prep.signs[i] * jac.meas.signs[i] * outsign(i) = 1
                    THEN 1 ELSE 0)

\* C10 witness: a two-qubit row in which an error equal to the basis on the
\* first qubit and trivial on the second gives -1, and the all-I error gives 1
C10_Witness ==
    /\ jac.fn = "affine_jac_element" /\ SameBasis(jac) /\ NQ(jac) = 2
    /\ jac.prep.signs = <<1, -1>> /\ jac.meas.signs = <<-1, 1>>
    /\ jac.outcome = <<"1", "1">>
    /\ jac.prep.rep = <<"X", "Y">>
    /\ jac.row[<<"I", "I">>] = Ok(1)
    /\ jac.row[<<"X", "I">>] = Ok(1)
    /\ jac.row[<<"X", "Y">>] = Ok(-1)

\* ======================================================================
\* Properties of idle_tomography_fidpairs (specification SpecFid)
\* ======================================================================
FidDone == jac.fn = "idle_tomography_fidpairs"
RECURSIVE Pow3(_)
Pow3(n) == IF n = 0 THEN 1 ELSE 3 * Pow3(n - 1)
\* the preferred sign of letter l
PreferredSign(preferred, l) ==
    LET s == IF l = "X" THEN preferred[1] ELSE IF l = "Y" THEN preferred[2] ELSE preferred[3]
    IN IF s = "+" THEN 1 ELSE -1
\* the flip pattern of a template: per position, the factor on the preferred signs
FlipOf(pair) ==
    [i \in 1..Len(pair[1].rep) |-> pair[1].signs[i] * PreferredSign(jac.prep_signs, pair[1].rep[i])]
TemplatesOf(flip) ==
    {k \in 1..Len(jac.sto_tmpl_pairs) : FlipOf(jac.sto_tmpl_pairs[k]) = flip}
\* the templates with flip pattern `flip` are one per basis-letter tuple
OnePerTuple(flip) ==
    /\ Cardinality(TemplatesOf(flip)) = Pow3(jac.maxweight)
    /\ {jac.sto_tmpl_pairs[k][1].rep : k \in TemplatesOf(flip)} = SeqsOf(Bases, jac.maxweight)

\* C11: the stochastic templates of a call that builds them are 3^maxweight
\* without affine, one per basis-letter tuple with the preferred signs; 6
\* for maxweight 1 with affine and 27 for maxweight 2 with affine, one per
\* tuple for each of the flip patterns no-flip, flip-second, flip-first
\* (never flip-both); in every template prep and meas have the same letters
\* and each position's prep sign and meas sign are the preferred signs
\* multiplied by the same factor.
C11_StochasticTemplates ==
    (FidDone /\ jac.include_stochastic /\ (jac.include_affine => jac.maxweight \in {1, 2})) =>
      LET T == jac.sto_tmpl_pairs
          mw == jac.maxweight
      IN /\ ~jac.include_affine =>
              /\ Len(T) = Pow3(mw)
              /\ OnePerTuple([i \in 1..mw |-> 1])
         /\ (jac.include_affine /\ mw = 1) =>
              /\ Len(T) = 6
              /\ OnePerTuple(<<1>>) /\ OnePerTuple(<<-1>>)
         /\ (jac.include_affine /\ mw = 2) =>
              /\ Len(T) = 27
              /\ OnePerTuple(<<1, 1>>) /\ OnePerTuple(<<1, -1>>) /\ OnePerTuple(<<-1, 1>>)
              /\ TemplatesOf(<<-1, -1>>) = {}
         /\ \A k \in 1..Len(T) :
              /\ T[k][1].rep = T[k][2].rep /\ Len(T[k][1].rep) = mw
              /\ \A i \in 1..mw :
                   \E f \in {1, -1} :
                     /\ T[k][1].signs[i] = f * PreferredSign(jac.prep_signs, T[k][1].rep[i])
                     /\ T[k][2].signs[i] = f * PreferredSign(jac.meas_signs, T[k][2].rep[i])
         /\ ~jac.include_hamiltonian => jac.res = Ok(T)

\* C11 witness: the 27 templates of maxweight 2 with affine, built for
\* preferred signs that differ between prep and meas
C11_Witness ==
    /\ FidDone /\ jac.include_stochastic /\ jac.include_affine /\ jac.maxweight = 2
    /\ ~jac.include_hamiltonian
    /\ jac.prep_signs = <<"+", "-", "+">> /\ jac.meas_signs = <<"-", "+", "-">>
    /\ Len(jac.sto_tmpl_pairs) = 27 /\ IsOk(jac.res) /\ Len(jac.res.val) = 27

\* C12: with include_stochastic and include_affine and a maxweight other
\* than 1 or 2 the call raises NotImplementedError and returns no pair,
\* whatever include_hamiltonian is; with include_stochastic and without
\* include_affine no maxweight raises it, and the call returns the
\* 3^maxweight stochastic pairs when the Hamiltonian part is not requested.
C12_AffineMaxweightLimit ==
    (FidDone /\ jac.include_stochastic) =>
      /\ (jac.include_affine /\ jac.maxweight \notin {1, 2}) =>
           jac.res = Raise(NotImplementedError, <<>>)
      /\ ~jac.include_affine =>
           /\ jac.res.exc # NotImplementedError
           /\ ~jac.include_hamiltonian => IsOk(jac.res) /\ Len(jac.res.val) = Pow3(jac.maxweight)

\* C12 witness: maxweight 3 refused with affine and Hamiltonian requested
C12_Witness ==
    /\ FidDone /\ jac.include_stochastic /\ jac.include_affine /\ jac.include_hamiltonian
    /\ jac.maxweight = 3 /\ jac.ham_tmpl = << <<"X", "Y", "Z">> >>
    /\ jac.res = Raise(NotImplementedError, <<>>)

\* the cyclic predecessor and successor of a basis letter (Z <- Y <- X <- Z)
CyclicPred(l) == CASE l = "X" -> "Z" [] l = "Y" -> "X" [] l = "Z" -> "Y"
CyclicSucc(l) == CASE l = "X" -> "Y" [] l = "Y" -> "Z" [] l = "Z" -> "X"

\* C13: a call with include_hamiltonian fails, returning no pair, when some
\* string of ham_tmpl has a length other than maxweight; when it succeeds,
\* the k-th Hamiltonian template has at every position i the cyclic
\* predecessor of t[i] as prep letter and the cyclic successor as meas
\* letter (so prep letter, meas letter and t[i] are pairwise different), its
\* signs are the preferred prep and meas signs of those letters, and the
\* Hamiltonian templates are the last pairs returned.
C13_HamiltonianTemplates ==
    (FidDone /\ jac.include_hamiltonian) =>
      /\ (\E k \in 1..Len(jac.ham_tmpl) : Len(jac.ham_tmpl[k]) # jac.maxweight) =>
           ~IsOk(jac.res) /\ jac.res.val = <<>>
      /\ IsOk(jac.res) =>
           LET H == jac.ham_tmpl_pairs
               nsto == Len(jac.res.val) - Len(H)
           IN /\ Len(H) = Len(jac.ham_tmpl)
              /\ nsto >= 0
              /\ \A k \in 1..Len(H) :
                   LET t == jac.ham_tmpl[k] IN
                   /\ jac.res.val[nsto + k] = H[k]
                   /\ Len(H[k][1].rep) = Len(t) /\ Len(H[k][2].rep) = Len(t)
                   /\ \A i \in 1..Len(t) :
                        /\ H[k][1].rep[i] = CyclicPred(t[i])
                        /\ H[k][2].rep[i] = CyclicSucc(t[i])
                        /\ H[k][1].rep[i] # H[k][2].rep[i]
                        /\ H[k][1].rep[i] # t[i] /\ H[k][2].rep[i] # t[i]
                        /\ H[k][1].signs[i] = PreferredSign(jac.prep_signs, H[k][1].rep[i])
                        /\ H[k][2].signs[i] = PreferredSign(jac.meas_signs, H[k][2].rep[i])

\* C13 witness: the six default templates built for maxweight 2, after the
\* stochastic ones, with a negative preferred prep sign for Y
C13_Witness ==
    /\ FidDone /\ jac.include_hamiltonian /\ jac.include_stochastic /\ jac.maxweight = 2
    /\ jac.ham_tmpl = HamTmplDefault /\ jac.prep_signs = <<"+", "-", "+">>
    /\ IsOk(jac.res) /\ Len(jac.ham_tmpl_pairs) = 6
    /\ jac.ham_tmpl_pairs[1][1] = [rep |-> <<"Y", "X">>, signs |-> <<-1, 1>>]
    /\ jac.ham_tmpl_pairs[1][2].rep = <<"X", "Z">>

\* ======================================================================
\* Properties of preferred_signs_from_paulidict (specification SpecSigns)
\* ======================================================================
SignsDone == jac.fn = "preferred_signs_from_paulidict"
HasPlus(d, l) == <<"+", l>> \in DOMAIN d \/ <<l>> \in DOMAIN d
HasMinus(d, l) == <<"-", l>> \in DOMAIN d
\* the plus entry's gates: those of "+L" when it exists, else those of bare "L"
PlusGates(d, l) == IF <<"+", l>> \in DOMAIN d THEN d[<<"+", l>>].items ELSE d[<<l>>].items
XYZ == <<"X", "Y", "Z">>

\* C14: preferred_signs_from_paulidict fails, returning nothing, exactly
\* when some letter of X, Y, Z has neither a plus entry ("+L" or bare "L")
\* nor "-L", and the error is about the first such letter; otherwise it
\* returns one sign per letter in the order X, Y, Z: '+' when only a plus
\* entry exists, '-' when only "-L" exists, and when both exist '+' if the
\* plus entry has at most as many gates as "-L" and '-' otherwise.
C14_PreferredSigns ==
    SignsDone =>
      LET d == jac.pauliDict
          missing == {i \in 1..3 : ~HasPlus(d, XYZ[i]) /\ ~HasMinus(d, XYZ[i])}
      IN /\ missing # {} =>
              /\ jac.res.exc = ValueError
              /\ \E i \in missing : jac.res.val = XYZ[i] /\ \A j \in missing : i <= j
         /\ missing = {} =>
              /\ IsOk(jac.res) /\ Len(jac.res.val) = 3
              /\ \A i \in 1..3 :
                   LET l == XYZ[i] IN
                   /\ (HasPlus(d, l) /\ ~HasMinus(d, l)) => jac.res.val[i] = "+"
                   /\ (~HasPlus(d, l) /\ HasMinus(d, l)) => jac.res.val[i] = "-"
                   /\ (HasPlus(d, l) /\ HasMinus(d, l)) =>
                        jac.res.val[i] = IF Len(PlusGates(d, l)) <= Len(d[<<"-", l>>].items)
                                         THEN "+" ELSE "-"

\* C14 witness: X with only a bare plus entry, Y with a tie, Z with a
\* longer plus entry than minus entry
C14_Witness ==
    /\ SignsDone
    /\ DOMAIN jac.pauliDict = {<<"X">>, <<"+", "Y">>, <<"-", "Y">>, <<"+", "Z">>, <<"-", "Z">>}
    /\ Len(jac.pauliDict[<<"+", "Y">>].items) = Len(jac.pauliDict[<<"-", "Y">>].items)
    /\ Len(jac.pauliDict[<<"+", "Z">>].items) > Len(jac.pauliDict[<<"-", "Z">>].items)
    /\ jac.res = Ok(<<"+", "+", "-">>)

\* ======================================================================
\* Properties of fidpairs_to_pauli_fidpairs (specifications SpecTrans, SpecTrip)
\* ======================================================================
ConvDone == jac.fn = "fidpairs_to_pauli_fidpairs"
TripDone == jac.fn = "round_trip"
\* every key ends in X, Y or Z and every value is a tuple
WellFormed(items) ==
    \A i \in DOMAIN items :
        items[i].key[Len(items[i].key)] \in {"X", "Y", "Z"} /\ items[i].val.isTuple
\* the sign and the letter a key stands for
SignedLetterOf(key) == <<IF key[1] = "-" THEN -1 ELSE 1, key[Len(key)]>>
\* the names of the gates of gstr on qubit q, in order
GatesOn(gstr, q) ==
    LET on == SelectSeq(Flatten(gstr), LAMBDA c : c.sslbls = << [isInt |-> TRUE, id |-> q] >>)
    IN [i \in 1..Len(on) |-> on[i].name]
\* gstr translates to a known signed basis on each of the n qubits
Translates(gstr, items, n) ==
    /\ \A i \in DOMAIN Flatten(gstr) :
          Len(Flatten(gstr)[i].sslbls) = 1 /\ Flatten(gstr)[i].sslbls[1].isInt
    /\ \A q \in 0..(n - 1) : \E i \in DOMAIN items : items[i].val.items = GatesOn(gstr, q)
Convertible ==
    {i \in DOMAIN jac.fidpairsList :
        /\ Translates(jac.fidpairsList[i][1], jac.pauliDicts[1], jac.nQubits)
        /\ Translates(jac.fidpairsList[i][2], jac.pauliDicts[2], jac.nQubits)}
Nth(S, k) == CHOOSE i \in S : Cardinality({j \in S : j <= i}) = k

\* C15: with a malformed entry in prepDict or measDict (a key not ending in
\* X, Y or Z, or a value that is no tuple) fidpairs_to_pauli_fidpairs fails
\* and returns nothing, whatever the pair list is; otherwise it does not
\* fail, and it returns one pair for each input pair whose prep and meas
\* gate strings both translate on every one of the nQubits qubits, in input
\* order, each qubit's letter and sign being those of a dictionary entry
\* with that qubit's gates; every other input pair is dropped.
C15_UnconvertibleDropped ==
    ConvDone =>
      LET n == jac.nQubits
          l == jac.fidpairsList
      IN /\ (~WellFormed(jac.pauliDicts[1]) \/ ~WellFormed(jac.pauliDicts[2])) =>
              ~IsOk(jac.res) /\ jac.res.val = <<>>
         /\ (WellFormed(jac.pauliDicts[1]) /\ WellFormed(jac.pauliDicts[2])) =>
              /\ IsOk(jac.res)
              /\ Len(jac.res.val) = Cardinality(Convertible)
              /\ \A k \in 1..Len(jac.res.val) : \A side \in 1..2 :
                   LET st == jac.res.val[k][side]
                       items == jac.pauliDicts[side]
                       gstr == l[Nth(Convertible, k)][side]
                   IN /\ Len(st.rep) = n /\ Len(st.signs) = n
                      /\ \A q \in 1..n : \E e \in DOMAIN items :
                           /\ items[e].val.items = GatesOn(gstr, q - 1)
                           /\ SignedLetterOf(items[e].key) = <<st.signs[q], st.rep[q]>>

\* C15 witness: of two pairs the first, whose prep gates are in no entry, is
\* dropped and the second is returned
C15_Witness ==
    /\ ConvDone /\ jac.nQubits = 2
    /\ jac.pauliDicts = <<ExamplePrepDict, ExampleMeasDict>>
    /\ Len(jac.fidpairsList) = 2 /\ Convertible = {2}
    /\ jac.res = Ok(<< << [rep |-> <<"X", "Z">>, signs |-> <<1, 1>>],
                         [rep |-> <<"Y", "Z">>, signs |-> <<1, 1>>] >> >>)

\* the dictionary has an entry for each signed letter of the state
HasEntries(st, items) ==
    \A q \in DOMAIN st.rep : \E i \in DOMAIN items :
        SignedLetterOf(items[i].key) = <<st.signs[q], st.rep[q]>>
\* no entry for another signed letter has the gates of an entry for a signed
\* letter of the state
Unshared(st, items) ==
    \A q \in DOMAIN st.rep : \A i \in DOMAIN items, j \in DOMAIN items :
        (/\ SignedLetterOf(items[i].key) = <<st.signs[q], st.rep[q]>>
         /\ items[j].val.items = items[i].val.items)
        => SignedLetterOf(items[j].key) = SignedLetterOf(items[i].key)

\* C16 as stated: every generated pair for whose signed letters both
\* dictionaries have entries comes back from gate strings with its letters
\* and signs.
C16_RoundTrip ==
    TripDone =>
      \A i \in DOMAIN jac.trip :
        LET pr == jac.pauli_fidpairs.val[i] IN
        (HasEntries(pr[1], jac.pauliDicts[1]) /\ HasEntries(pr[2], jac.pauliDicts[2]))
        => jac.trip[i] = Ok(<<pr>>)

\* C16, amended: every generated pair comes back from gate strings with its
\* letters and signs when both dictionaries are well formed, have entries
\* for the pair's signed letters, and give the gates of those entries to no
\* other signed letter.
C16_RoundTripOneToOne ==
    TripDone =>
      \A i \in DOMAIN jac.trip :
        LET pr == jac.pauli_fidpairs.val[i] IN
        (/\ WellFormed(jac.pauliDicts[1]) /\ WellFormed(jac.pauliDicts[2])
         /\ HasEntries(pr[1], jac.pauliDicts[1]) /\ HasEntries(pr[2], jac.pauliDicts[2])
         /\ Unshared(pr[1], jac.pauliDicts[1]) /\ Unshared(pr[2], jac.pauliDicts[2]))
        => jac.trip[i] = Ok(<<pr>>)

\* C16 witness: the 33 pairs of two qubits with all three classes, some with
\* minus signs, all recovered through the example dictionaries
C16_Witness ==
    /\ TripDone /\ jac.nQubits = 2
    /\ jac.pauliDicts = <<ExamplePrepDict, ExampleMeasDict>>
    /\ IsOk(jac.pauli_fidpairs) /\ Len(jac.pauli_fidpairs.val) = 33
    /\ \E i \in 1..33 : jac.pauli_fidpairs.val[i][1].signs = <<-1, 1>>
    /\ \A i \in 1..33 : jac.trip[i] = Ok(<<jac.pauli_fidpairs.val[i]>>)
    /\ jac.res = jac.pauli_fidpairs

\* ======================================================================
\* Further properties of do_idle_tomography (specification Spec)
\* ======================================================================
BadFitOrder == cfg.fitOrder \notin {1, 2}
AnalyseEvents(p) == {i \in DOMAIN hist[p] : hist[p][i].ev = "analyse"}

\* C17 as stated: in a run with a fit order other than 1 or 2 no worker
\* calls a gather, checks a rank or inverts, and none returns a results
\* object.
C17_BadFitOrderRunFails ==
    BadFitOrder =>
      \A p \in Procs :
        /\ ret[p].kind # "returned"
        /\ \A i \in DOMAIN hist[p] : hist[p][i].ev = "analyse"

\* C17, amended: in a run with a fit order other than 1 or 2 (0 and 3
\* here), a worker that comes to analyse a fiducial pair fails there with
\* NotImplementedError, raised by get_obs_stochastic_err_rate in Stage 1 and
\* by get_obs_hamiltonian_err_rate in Stage 2: that pair is the only one it
\* analyses, it calls no gather and makes no rank check or pseudo-inversion
\* after it, and it returns no results object.
C17_BadFitOrderFailsAtFirstFit ==
    BadFitOrder =>
      \A p \in Procs :
        AnalyseEvents(p) # {} =>
          /\ AnalyseEvents(p) = {Len(hist[p])}
          /\ pc[p] = "failed"
          /\ ret[p] = Raised(NotImplementedError)
          /\ LET e == hist[p][Len(hist[p])]
                 fp == loc[p].pauli_fidpairs[e.ifp + 1]
             IN IF e.stage = "stochastic"
                THEN \A o \in Outcomes(cfg.nQubits) :
                       GetObsStochasticErrRate(fp, o, cfg.fitOrder) = Raise(NotImplementedError, NoInfo)
                ELSE \A o \in PauliOps(cfg.nQubits) :
                       GetObsHamiltonianErrRate(fp, o, cfg.fitOrder) = Raise(NotImplementedError, NoInfo)

\* C17 witness: fit order 0, Stage 1 skipped, the first Hamiltonian pair
\* analysed and the call failed there
C17_Witness ==
    /\ cfg.fitOrder = 0 /\ ~cfg.extract_stochastic /\ cfg.extract_hamiltonian
    /\ \E p \in Procs :
         /\ hist[p] = << Ev("analyse", "hamiltonian", 0, <<>>, <<>>) >>
         /\ ret[p] = Raised(NotImplementedError)

\* the run of the end-to-end scenario: one qubit, maximum error weight 1, the
\* three classes requested, every option left at its default
DefaultOptions ==
    /\ ~cfg.has_pauli_fidpairs /\ cfg.ham_tmpl = HamTmplDefault
    /\ cfg.fitOrder = 1 /\ cfg.jacmode = "separate"
OneQubitAllClasses ==
    /\ cfg.nQubits = 1 /\ cfg.maxErrWeight = 1
    /\ cfg.extract_hamiltonian /\ cfg.extract_stochastic /\ cfg.extract_affine

\* C18: a run on one qubit with maximum error weight 1 and all three error
\* classes requested completes: no worker's call raises, and a call that has
\* ended has returned a results object with the rates of the three classes.
C18_OneQubitRunCompletes ==
    (OneQubitAllClasses /\ DefaultOptions) =>
      \A p \in Procs :
        /\ ret[p].kind # "raised"
        /\ (pc[p] = "done" /\ IsRoot(p)) =>
             {"hamiltonian", "stochastic", "affine"} \subseteq DOMAIN ret[p].value.intrinsic_rates

PinvCount(p, stage) ==
    Cardinality({i \in DOMAIN hist[p] : hist[p][i].ev = "pinv" /\ hist[p][i].stage = stage})
StagePinvs(c, stage) ==
    IF stage = "stochastic" THEN (IF c.extract_stochastic THEN 1 ELSE 0)
    ELSE (IF c.extract_hamiltonian THEN 1 ELSE 0)

\* C19: a worker that is not the coordinator never inverts.  In "together"
\* mode no pseudo-inversion belongs to Stage 1 or Stage 2, intrinsic_rates
\* is empty until the call has gone through the last block, the joint
\* pseudo-inversion is made at most once, in the last block, and exactly
\* once by a coordinator that returns results.  In "separate" mode there
\* is no joint pseudo-inversion, a stage inverts at most once, and a
\* coordinator that has left a stage it executes, or returns results, has
\* inverted exactly once for each executed stage.
C19_InversionsPerMode ==
    \A p \in Procs :
      /\ ~IsRoot(p) => \A i \in DOMAIN hist[p] : hist[p][i].ev # "pinv"
      /\ cfg.jacmode = "together" =>
           /\ PinvCount(p, "stochastic") = 0 /\ PinvCount(p, "hamiltonian") = 0
           /\ PinvCount(p, "joint") <= 1
           /\ pc[p] # "done" => (loc[p].intrinsic_rates = EmptyDict /\ PinvCount(p, "joint") = 0)
           /\ (IsRoot(p) /\ ret[p].kind = "returned") =>
                (PinvCount(p, "joint") = 1 /\ hist[p][Len(hist[p])].ev = "pinv")
      /\ cfg.jacmode = "separate" =>
           /\ PinvCount(p, "joint") = 0
           /\ PinvCount(p, "stochastic") <= 1 /\ PinvCount(p, "hamiltonian") <= 1
           /\ (IsRoot(p) /\ pc[p] # "failed" /\ PcPhase(pc[p]) > 1) =>
                PinvCount(p, "stochastic") = StagePinvs(cfg, "stochastic")
           /\ (IsRoot(p) /\ pc[p] # "failed" /\ PcPhase(pc[p]) > 2) =>
                PinvCount(p, "hamiltonian") = StagePinvs(cfg, "hamiltonian")
           /\ PcPhase(pc[p]) <= 1 => PinvCount(p, "hamiltonian") = 0

\* C19 witness: a "together" run of two workers with the three classes, in
\* which the coordinator has returned after one inversion, the joint one,
\* and the other worker after none
C19_Witness ==
    /\ cfg.jacmode = "together"
    /\ cfg.extract_hamiltonian /\ cfg.extract_stochastic /\ cfg.extract_affine
    /\ \E p \in Procs, q \in Procs :
         /\ p # q /\ q \in World(p) /\ IsRoot(p)
         /\ ret[p].kind = "returned" /\ ret[q].kind = "returned"
         /\ {i \in DOMAIN hist[p] : hist[p][i].ev = "pinv"} = {Len(hist[p])}
         /\ hist[p][Len(hist[p])].stage = "joint"
         /\ DOMAIN ret[p].value.intrinsic_rates = {"hamiltonian", "stochastic", "affine"}

EventsOf(p, ev, stage) == {i \in DOMAIN hist[p] : hist[p][i].ev = ev /\ hist[p][i].stage = stage}

\* C20: in "separate" mode with affine extraction, a coordinator at the
\* Stage-2 inversion holds intrinsic_rates['affine'], the upper half of the
\* Stage-1 solution; the observed Hamiltonian rates are corrected once, and
\* the correction comes before the Stage-2 rank check and the Stage-2
\* pseudo-inversion; the pseudo-inverse is applied to the corrected vector:
\* every observed rate in it carries the subtraction of its row of the
\* affine-observable Jacobian times those affine rates.
C20_AffineCorrectionFirst ==
    (cfg.jacmode = "separate" /\ cfg.extract_affine) =>
      \A p \in Procs :
        /\ (IsRoot(p) /\ pc[p] = "s2root") =>
             /\ "affine" \in DOMAIN loc[p].intrinsic_rates
             /\ EventsOf(p, "pinv", "stochastic") # {}
        /\ Cardinality(EventsOf(p, "correct", "hamiltonian")) <= 1
        /\ \A i \in EventsOf(p, "rankcheck", "hamiltonian") \cup EventsOf(p, "pinv", "hamiltonian") :
             \E j \in EventsOf(p, "correct", "hamiltonian") : j < i
        /\ \A i \in EventsOf(p, "pinv", "hamiltonian") :
             LET obs == hist[p][i].obs
                 A == loc[p].intrinsic_rates["affine"]
                 c == CHOOSE j \in EventsOf(p, "correct", "hamiltonian") : TRUE
             IN /\ obs = hist[p][c].obs
                /\ obs # <<>>
                /\ Len(A) = Len(loc[p].errors)
                /\ \A k \in DOMAIN A : \A lab \in A[k].labels : lab[1] = "affine"
                /\ \A k \in DOMAIN obs :
                     /\ obs[k].fit.kind = "hamiltonian"
                     /\ Len(obs[k].minus) = 1
                     /\ obs[k].minus[1].A = A
                     /\ Len(obs[k].minus[1].jaff.elems) = Len(A)

\* C20 witness: a "separate" run with the three classes whose coordinator
\* has corrected, checked the rank and inverted in Stage 2, in that order
C20_Witness ==
    /\ cfg.jacmode = "separate"
    /\ cfg.extract_hamiltonian /\ cfg.extract_stochastic /\ cfg.extract_affine
    /\ \E p \in Procs :
         /\ IsRoot(p) /\ ret[p].kind = "returned"
         /\ \E i \in DOMAIN hist[p] :
              /\ i + 2 = Len(hist[p])
              /\ hist[p][i].ev = "correct" /\ hist[p][i + 1].ev = "rankcheck"
              /\ hist[p][i + 2].ev = "pinv" /\ hist[p][i + 2].stage = "hamiltonian"
              /\ hist[p][i + 2].obs[1].minus # <<>>



\* ======================================================================
\* Properties of the partition and of the gathered lists (specification Spec)
\* ======================================================================
Indices(s) == {s[i] : i \in DOMAIN s}
StageFlag(stage) == IF stage = "stochastic" THEN cfg.extract_stochastic ELSE cfg.extract_hamiltonian
StageNumber(stage) == IF stage = "stochastic" THEN 1 ELSE 2
StageFidpairs(p, stage) == IF stage = "stochastic" THEN Stage1Fidpairs(p).val ELSE Stage2Fidpairs(p).val
\* the key under which a stage files its pairs and its records
StageName(stage) ==
    IF stage = "hamiltonian" THEN "hamiltonian"
    ELSE IF cfg.extract_affine THEN "stochastic/affine" ELSE "stochastic"
\* the outcomes or observables of one pair
PairKeys(stage, fp) ==
    IF stage = "stochastic" THEN AllOutcomes(fp[1], fp[2], cfg.maxErrWeight)
    ELSE AllObservables(fp[2], cfg.maxErrWeight)
\* one (pair, outcome-or-observable) per row, pair by pair in the list's order
ExpectedKeys(stage, fidpairs) ==
    Flatten([i \in 1..Len(fidpairs) |->
               LET ks == PairKeys(stage, fidpairs[i])
               IN [j \in 1..Len(ks) |-> [ifp |-> i - 1, pair |-> fidpairs[i], key |-> ks[j]]]])
KeysOf(J) == [i \in 1..Len(J) |-> J[i].key]
\* entry i of the records describes pair i of the list
RecordsDescribe(stage, infos, fidpairs) ==
    /\ Len(infos) = Len(fidpairs)
    /\ \A i \in 1..Len(infos) :
         LET ks == PairKeys(stage, fidpairs[i]) IN
         /\ Len(infos[i]) = Len(ks)
         /\ \A j \in 1..Len(ks) :
              /\ infos[i][j].key = ks[j]
              /\ infos[i][j].info.rate.fit.pair = fidpairs[i]
              /\ infos[i][j].info.rate.fit.key = ks[j]

JointMatrices(p) ==
    { hist[p][i].J : i \in { j \in DOMAIN hist[p] : hist[p][j].ev = "rankcheck" /\ hist[p][j].stage = "joint" } }
\* a row of the joint matrix is a Hamiltonian row when Stage 2 built it, a
\* Stochastic/Affine row when Stage 1 built it
IsHamRow(p, row) == \E i \in DOMAIN loc[p].ham_aff_jac : loc[p].ham_aff_jac[i].key = row.key
IsStoRow(p, row) == \E i \in DOMAIN loc[p].sto_aff_jac : loc[p].sto_aff_jac[i].key = row.key
\* the columns of a class in the joint matrix
ClassColumns(cls, nerr) ==
    IF cls \in Requested(cfg)
    THEN (ColumnOffset(cfg, cls, nerr) + 1)..(ColumnOffset(cfg, cls, nerr) + nerr)
    ELSE {}
ZeroIn(row, columns) == \A k \in columns : row.elems[k].val = 0

\* C22 as stated: in the joint matrix every Hamiltonian row is zero in every
\* Stochastic and in every Affine column, and every Stochastic/Affine row is
\* zero in every Hamiltonian column.
C22_JointBlocksDisjoint ==
    \A p \in Procs : \A Jbig \in JointMatrices(p) : \A r \in DOMAIN Jbig :
      LET nerr == Len(loc[p].errors) IN
      /\ IsHamRow(p, Jbig[r]) =>
           /\ ZeroIn(Jbig[r], ClassColumns("stochastic", nerr))
           /\ ZeroIn(Jbig[r], ClassColumns("affine", nerr))
      /\ IsStoRow(p, Jbig[r]) => ZeroIn(Jbig[r], ClassColumns("hamiltonian", nerr))

\* C22: in the joint matrix every Hamiltonian row is zero in every
\* Stochastic column and every Stochastic/Affine row is zero in every
\* Hamiltonian column, for every combination of requested classes; when
\* affine is extracted, a Hamiltonian row holds in the Affine column of
\* errors[k] the value of affine_jac_obs_element for its pair, errors[k]
\* and its observable (its columns of ham_aff_jac past the first
\* len(errors)), which is not zero in general.
C22_JointBlocksWithAffineObs ==
    \A p \in Procs : \A Jbig \in JointMatrices(p) : \A r \in DOMAIN Jbig :
      LET errors == loc[p].errors
          nerr == Len(errors)
          row == Jbig[r]
      IN
      /\ IsHamRow(p, row) \/ IsStoRow(p, row)
      /\ Len(row.elems) = nerr * Cardinality(Requested(cfg))
      /\ IsHamRow(p, row) =>
           /\ ZeroIn(row, ClassColumns("stochastic", nerr))
           /\ \A k \in 1..nerr :
                /\ row.elems[k] = Elem("hamiltonian", errors[k],
                                       HamiltonianJacElement(row.key.pair[1], errors[k], row.key.key).val)
                /\ cfg.extract_affine =>
                     row.elems[ColumnOffset(cfg, "affine", nerr) + k]
                       = Elem("affine", errors[k],
                              AffineJacObsElement(row.key.pair[1], errors[k], row.key.pair[2],
                                                  row.key.key).val)
      /\ IsStoRow(p, row) => ZeroIn(row, ClassColumns("hamiltonian", nerr))

\* C22 witness: a joint matrix with the three classes in which a Hamiltonian
\* row has a non-zero Affine column and a Stochastic/Affine row a non-zero
\* Affine column
C22_Witness ==
    \E p \in Procs : \E Jbig \in JointMatrices(p) :
      LET nerr == Len(loc[p].errors) IN
      /\ Requested(cfg) = {"hamiltonian", "stochastic", "affine"}
      /\ \E r \in DOMAIN Jbig : IsHamRow(p, Jbig[r]) /\ ~ZeroIn(Jbig[r], ClassColumns("affine", nerr))
      /\ \E r \in DOMAIN Jbig : IsStoRow(p, Jbig[r]) /\ ~ZeroIn(Jbig[r], ClassColumns("affine", nerr))


\* the rows of a joint matrix that Stage 2 built, and those Stage 1 built
HamRows(p, Jbig) == {r \in DOMAIN Jbig : IsHamRow(p, Jbig[r])}
StoRows(p, Jbig) == {r \in DOMAIN Jbig : IsStoRow(p, Jbig[r])}
BothStagesRan(p) == loc[p].sto_aff_jac # <<>> /\ loc[p].ham_aff_jac # <<>>

\* C23 as stated: when both stages ran, the Hamiltonian rows are the top
\* rows of the joint matrix and the Stochastic/Affine rows the rows below.
C23_HamiltonianRowsOnTop ==
    \A p \in Procs : \A Jbig \in JointMatrices(p) :
      BothStagesRan(p) =>
        /\ HamRows(p, Jbig) = 1..Len(loc[p].ham_aff_jac)
        /\ StoRows(p, Jbig) = (Len(loc[p].ham_aff_jac) + 1)..Len(Jbig)

\* C23: when both stages ran, the Stochastic/Affine rows are the top rows of
\* the joint matrix, in the order of sto_aff_jac, and the Hamiltonian rows
\* the rows below them, in the order of ham_aff_jac (the Hamiltonian block
\* comes first in the columns, not in the rows).
C23_StochasticRowsOnTop ==
    \A p \in Procs : \A Jbig \in JointMatrices(p) :
      BothStagesRan(p) =>
        LET r1 == Len(loc[p].sto_aff_jac) IN
        /\ Len(Jbig) = r1 + Len(loc[p].ham_aff_jac)
        /\ StoRows(p, Jbig) = 1..r1
        /\ HamRows(p, Jbig) = (r1 + 1)..Len(Jbig)
        /\ KeysOf(Jbig) = KeysOf(loc[p].sto_aff_jac) \o KeysOf(loc[p].ham_aff_jac)

\* C23 witness: a joint matrix of a run where Stage 1 contributed more rows
\* than Stage 2
C23_Witness ==
    \E p \in Procs : \E Jbig \in JointMatrices(p) :
      /\ BothStagesRan(p)
      /\ Len(loc[p].sto_aff_jac) > Len(loc[p].ham_aff_jac)
      /\ HasEv(p, "pinv", "joint")


\* ======================================================================
\* Properties of the Stage-1 fiducial pairs (specification Spec)
\* ======================================================================
Count(lst, x) == Cardinality({i \in DOMAIN lst : lst[i] = x})
Stage1Pcs == {"s1loop", "wait_s1info", "s1J", "wait_s1J", "s1root"}

\* C24: every pair of a worker's Stage-1 slice, generated or supplied, has
\* the same basis letters in prep and meas on every qubit (the signs may
\* differ), so stochastic_outcome raises on none of them for any error; of a
\* supplied list the pairs with equal letter strings, and only those, are in
\* the Stage-1 list, the others, and only those, in the Stage-2 list, each
\* pair as often in one of the two lists as in the supplied list; and a run
\* that ends with an assertion error is a run whose fiducial pairs were
\* generated and whose generation failed.
C24_Stage1SameBasis ==
    \A p \in Procs :
      LET same == loc[p].same_basis_fidpairs
          diff == loc[p].diff_basis_fidpairs
          given == cfg.pauli_fidpairs
      IN
      /\ pc[p] \in Stage1Pcs =>
           /\ \A i \in DOMAIN loc[p].pauli_fidpairs :
                loc[p].pauli_fidpairs[i][1].rep = loc[p].pauli_fidpairs[i][2].rep
           /\ \A i \in DOMAIN my[p].slice :
                LET fp == my[p].slice[i][2] IN
                /\ fp = loc[p].pauli_fidpairs[my[p].slice[i][1] + 1]
                /\ fp[1].rep = fp[2].rep
                /\ \A k \in DOMAIN loc[p].errors :
                     IsOk(StochasticOutcome(fp[1], loc[p].errors[k], fp[2]))
      /\ (cfg.has_pauli_fidpairs /\ pc[p] # "start") =>
           /\ \A i \in DOMAIN same : same[i][1].rep = same[i][2].rep
           /\ \A i \in DOMAIN diff : diff[i][1].rep # diff[i][2].rep
           /\ Len(same) + Len(diff) = Len(given)
           /\ \A i \in DOMAIN given :
                Count(same, given[i]) + Count(diff, given[i]) = Count(given, given[i])
      /\ ret[p].exc = AssertionError =>
           /\ ~cfg.has_pauli_fidpairs
           /\ ~IsOk(Stage1Fidpairs(p)) \/ ~IsOk(Stage2Fidpairs(p))

\* C24 witness: a run over a supplied list with pairs of both kinds where a
\* worker has analysed several Stage-1 pairs and is still in Stage 1
C24_Witness ==
    \E p \in Procs :
      /\ cfg.has_pauli_fidpairs
      /\ Len(loc[p].same_basis_fidpairs) > 1 /\ Len(loc[p].diff_basis_fidpairs) > 1
      /\ pc[p] \in Stage1Pcs
      /\ Len(Analysed(p, "stochastic")) > 1


\* ======================================================================
\* Properties of the fit weights (specification SpecWt)
\* ======================================================================
StrictlyInside(q) == 0 < q.num /\ q.num < q.den
FinitePositive(w) == w.kind = "finite" /\ w.sq.num > 0 /\ w.sq.den > 0

\* C25: for every dataset row with a total of at least 1, the stochastic
\* estimator's freq_and_weight returns, for every outcome (count c, absent
\* from the row or not), the raw frequency c/total and a weight computed
\* from the smoothed frequency (c+1)/(total+2), which lies strictly between
\* 0 and 1, and the Hamiltonian estimator's unsigned_exptn_and_weight
\* returns, for every observable of weight 1 or 2, a weight computed from a
\* smoothed frequency strictly between 0 and 1; both weights are finite and
\* positive and neither call divides by zero, also when the raw frequency
\* is 0 or 1.
C25_SmoothedWeightFinite ==
    LET total == RowTotal(jac.cnts)
        cnt == CountsGet(jac.cnts, jac.outcome)
    IN total >= 1 =>
         /\ jac.sto # NotCalled =>
              /\ IsOk(jac.sto)
              /\ jac.sto.val.f = Rat(cnt, total)
              /\ jac.sto.val.fp.num * (total + 2) = (cnt + 1) * jac.sto.val.fp.den
              /\ StrictlyInside(jac.sto.val.fp)
              /\ FinitePositive(jac.sto.val.wt)
         /\ (jac.ham # NotCalled /\ Len(jac.observed_indices) \in {1, 2}) =>
              /\ IsOk(jac.ham)
              /\ StrictlyInside(jac.ham.val.fp)
              /\ FinitePositive(jac.ham.val.wt)

\* C25 witness: both estimators applied to a two-qubit row where the raw
\* frequency of the outcome is 1 and every shot has equal bits on the two
\* observed qubits
C25_Witness ==
    /\ jac.n = 2
    /\ jac.sto # NotCalled /\ jac.ham # NotCalled
    /\ Len(jac.observed_indices) = 2
    /\ RowTotal(jac.cnts) >= 1
    /\ IsOk(jac.sto) /\ jac.sto.val.f.num = jac.sto.val.f.den
    /\ IsOk(jac.ham) /\ jac.ham.val.exptn.num = jac.ham.val.exptn.den


\* ======================================================================
\* Properties of the observed-rate records (specification Spec)
\* ======================================================================
Stage2Pcs == {"s2loop", "wait_s2info", "s2J", "wait_s2J", "s2Jaff", "wait_s2Jaff", "s2root"}
\* the record the curve-fit estimator of a stage returns for a pair and an
\* outcome or observable
EstimatorInfo(stage, fp, key) ==
    IF stage = "stochastic" THEN GetObsStochasticErrRate(fp, key, cfg.fitOrder).val
    ELSE GetObsHamiltonianErrRate(fp, key, cfg.fitOrder).val
\* the same record with the rows the loop body stores in it (lines 638, 751-752)
LoopInfo(stage, fp, key, errors) ==
    IF stage = "stochastic"
    THEN [EstimatorInfo(stage, fp, key) EXCEPT
            !.jacobian_row = StochasticJrow(fp, key, errors, cfg.extract_affine).val]
    ELSE [EstimatorInfo(stage, fp, key) EXCEPT
            !.jacobian_row = HamiltonianJrow(fp, key, errors),
            !.affine_jacobian_row = IF cfg.extract_affine THEN AffineObsJrow(fp, key, errors).val
                                    ELSE <<>>]
AsReturned(stage, infos, fidpairs) ==
    \A i \in DOMAIN infos : \A j \in DOMAIN infos[i] :
      infos[i][j].info = EstimatorInfo(stage, fidpairs[i], infos[i][j].key)
AsStored(stage, infos, fidpairs, errors) ==
    \A i \in DOMAIN infos : \A j \in DOMAIN infos[i] :
      infos[i][j].info = LoopInfo(stage, fidpairs[i], infos[i][j].key, errors)
SlicePairs(p) == [i \in DOMAIN my[p].slice |-> my[p].slice[i][2]]
StageOfName(name) == IF name = "hamiltonian" THEN "hamiltonian" ELSE "stochastic"

\* C26 as stated: every record a worker holds, the coordinator files or the
\* call returns is the record the curve-fit estimator returned for its pair
\* and its outcome or observable, unchanged.
C26_RecordsAsReturned ==
    \A p \in Procs :
      /\ pc[p] \in Stage1Pcs => AsReturned("stochastic", my[p].infos, SlicePairs(p))
      /\ pc[p] \in Stage2Pcs => AsReturned("hamiltonian", my[p].infos, SlicePairs(p))
      /\ \A name \in DOMAIN ret[p].value.observed_rate_infos :
           AsReturned(StageOfName(name), ret[p].value.observed_rate_infos[name],
                      ret[p].value.pauli_fidpair_dict[name])

\* C26: the loop body that obtained a record from the curve-fit estimator
\* stores the pair's Jacobian row in it (and in Stage 2 with affine the
\* affine Jacobian row); from then on the record is the same wherever it is
\* held: in the worker's list, in the coordinator's observed_rate_infos and
\* in the results returned.  The fields the estimator set are never
\* changed; in particular the rate of a returned record carries no affine
\* correction, also when Stage 2 corrected the observed-rate vector.
C26_RecordsFixedOnceStored ==
    \A p \in Procs :
      /\ pc[p] \in Stage1Pcs => AsStored("stochastic", my[p].infos, SlicePairs(p), loc[p].errors)
      /\ pc[p] \in Stage2Pcs => AsStored("hamiltonian", my[p].infos, SlicePairs(p), loc[p].errors)
      /\ \A name \in DOMAIN loc[p].observed_rate_infos :
           AsStored(StageOfName(name), loc[p].observed_rate_infos[name],
                    loc[p].pauli_fidpair_dict[name], loc[p].errors)
      /\ \A name \in DOMAIN ret[p].value.observed_rate_infos :
           /\ AsStored(StageOfName(name), ret[p].value.observed_rate_infos[name],
                       ret[p].value.pauli_fidpair_dict[name], ret[p].value.errors)
           /\ \A i \in DOMAIN ret[p].value.observed_rate_infos[name] :
                \A j \in DOMAIN ret[p].value.observed_rate_infos[name][i] :
                  ret[p].value.observed_rate_infos[name][i][j].info.rate.minus = <<>>

\* C26 witness: results returned in "separate" mode after Stage 2 inverted
\* against a corrected observed-rate vector, with Hamiltonian records
C26_Witness ==
    \E p \in Procs :
      /\ ret[p].kind = "returned" /\ ~ret[p].value.none
      /\ "hamiltonian" \in DOMAIN ret[p].value.observed_rate_infos
      /\ ret[p].value.observed_rate_infos["hamiltonian"] # <<>>
      /\ \E i \in DOMAIN hist[p] :
           /\ hist[p][i].ev = "correct"
           /\ hist[p][i].obs # <<>>
           /\ \A k \in DOMAIN hist[p][i].obs : hist[p][i].obs[k].minus # <<>>


\* ======================================================================
\* Further properties of the Jacobian element functions (specification SpecJac)
\* ======================================================================
\* the sum of the values a function of call results takes on the set S
ValueSum(f, S) ==
    LET RECURSIVE Add(_)
        Add(R) == IF R = {} THEN 0 ELSE LET x == CHOOSE x \in R : TRUE IN f[x].val + Add(R \ {x})
    IN Add(S)

\* C27: for same-basis prep and meas on N qubits and every error (the
\* identity included), stochastic_jac_element raises for no outcome string,
\* is 1 for exactly one of the 2^N outcome strings, the one
\* stochastic_outcome gives, and 0 for all the others; affine_jac_element
\* raises for none and takes values in {-1, 0, 1}; and for every error with
\* at least one letter other than I the values of affine_jac_element over
\* the 2^N outcome strings sum to 0.
C27_OutcomeSums ==
    (jac.fn = "all_outcomes" /\ SameBasis(jac)) =>
      \A e \in DOMAIN jac.row :
        LET outs == Outcomes(NQ(jac))
            sto == jac.row[e].sto
            aff == jac.row[e].aff
        IN /\ DOMAIN sto = outs /\ DOMAIN aff = outs
           /\ Cardinality(outs) = 2 ^ NQ(jac)
           /\ \A o \in outs : IsOk(sto[o]) /\ sto[o].val \in {0, 1}
           /\ Cardinality({o \in outs : sto[o].val = 1}) = 1
           /\ \A o \in outs : sto[o].val = 1 <=> o = StochasticOutcome(jac.prep, e, jac.meas).val
           /\ \A o \in outs : IsOk(aff[o]) /\ aff[o].val \in {-1, 0, 1}
           /\ (\E i \in 1..NQ(jac) : e[i] # "I") => ValueSum(aff, outs) = 0

\* C27 witness: the two functions applied over the four outcome strings of a
\* two-qubit same-basis pair whose signs differ on a qubit, an error acting
\* on one qubit only having non-zero affine elements
C27_Witness ==
    /\ jac.fn = "all_outcomes" /\ SameBasis(jac) /\ NQ(jac) = 2
    /\ jac.prep.signs # jac.meas.signs
    /\ \E e \in DOMAIN jac.row :
         /\ e[1] # "I" /\ e[2] = "I"
         /\ \E o \in Outcomes(2) : jac.row[e].aff[o].val = 1
         /\ \E o \in Outcomes(2) : jac.row[e].aff[o].val = -1


\* ======================================================================
\* Properties of the inversions' inputs (specification Spec)
\* ======================================================================
\* row i of the matrix and entry i of the vector come from the same pair and
\* the same outcome or observable (and so does every correction of entry i)
Aligned(J, rates) ==
    /\ Len(J) = Len(rates)
    /\ \A i \in DOMAIN J :
         /\ rates[i].fit.pair = J[i].key.pair
         /\ rates[i].fit.key = J[i].key.key
         /\ \A k \in DOMAIN rates[i].minus : rates[i].minus[k].jaff.key = J[i].key
\* the class of fit a row's rate must come from
RowKind(p, row) == IF IsHamRow(p, row) THEN "hamiltonian" ELSE "stochastic"

\* C28: whenever a coordinator inverts, in Stage 1, in Stage 2 or in the
\* joint inversion of "together" mode, with one worker or several, the
\* matrix it rank-checked and the observed-rate vector it multiplies the
\* pseudo-inverse with have the same number of rows and entries, and entry
\* i of the vector is the rate fitted (and, in Stage 2 of "separate" mode
\* with affine, corrected) for the fiducial pair and the outcome or
\* observable row i of the matrix was built from.
C28_MatrixAndRatesAligned ==
    \A p \in Procs : \A i \in DOMAIN hist[p] :
      hist[p][i].ev = "pinv" =>
        \E j \in 1..(i - 1) :
          /\ hist[p][j].ev = "rankcheck" /\ hist[p][j].stage = hist[p][i].stage
          /\ hist[p][j].J # <<>>
          /\ Aligned(hist[p][j].J, hist[p][i].obs)
          /\ \A r \in DOMAIN hist[p][j].J :
               hist[p][i].obs[r].fit.kind =
                 (IF hist[p][i].stage = "joint" THEN RowKind(p, hist[p][j].J[r])
                  ELSE hist[p][i].stage)

\* C28 witness: a two-worker run in "together" mode whose joint inversion
\* took rows and rates of both stages, several pairs each
C28_Witness ==
    /\ Cardinality(Procs) = 2
    /\ \E p \in Procs : \E i \in DOMAIN hist[p] :
         /\ hist[p][i].ev = "pinv" /\ hist[p][i].stage = "joint"
         /\ Len(loc[p].sto_aff_jac) > 2 /\ Len(loc[p].ham_aff_jac) > 2
         /\ Len(hist[p][i].obs) = Len(loc[p].sto_aff_jac) + Len(loc[p].ham_aff_jac)


\* ======================================================================
\* Properties of the gathers of a multi-worker run (specification SpecFair)
\* ======================================================================
\* the gather calls of a run, from its extract flags alone
ExpectedGathers(c) ==
    (IF c.extract_stochastic THEN <<"s1info", "s1J">> ELSE <<>>)
    \o (IF ~c.extract_hamiltonian THEN <<>>
        ELSE <<"s2info", "s2J">> \o (IF c.extract_affine THEN <<"s2Jaff">> ELSE <<>>))
SiteIndex(site) ==
    CASE site = "s1info" -> 1 [] site = "s1J" -> 2 [] site = "s2info" -> 3
      [] site = "s2J" -> 4 [] site = "s2Jaff" -> 5
\* how far in the order of the gather calls a worker at position l has come
Reached(l) ==
    CASE l \in {"start", "stage1", "s1loop"} -> 0
      [] l \in {"wait_s1info", "s1J"} -> 1
      [] l \in {"wait_s1J", "s1root", "stage2", "s2loop"} -> 2
      [] l \in {"wait_s2info", "s2J"} -> 3
      [] l \in {"wait_s2J", "s2Jaff"} -> 4
      [] OTHER -> 5
GatherCalls(p) ==
    LET evs == SelectSeq(hist[p], LAMBDA e : e.ev = "gather") IN [i \in DOMAIN evs |-> evs[i].stage]
IsPrefix(a, b) == Len(a) <= Len(b) /\ a = SubSeq(b, 1, Len(a))
CalledUpTo(c, k) == SelectSeq(ExpectedGathers(c), LAMBDA site : SiteIndex(site) <= k)
SomeFailed == \E p \in Procs : pc[p] = "failed"
AllDone == \A p \in Procs : pc[p] = "done"

\* the gather calls a worker has made are those its position and the
\* extract flags give, and a gather a worker has come out of was called by
\* every worker of the run
GathersUniform ==
    \A p \in Procs : ~comm[p].none =>
      /\ IsPrefix(GatherCalls(p), ExpectedGathers(cfg))
      /\ pc[p] # "failed" => GatherCalls(p) = CalledUpTo(cfg, Reached(pc[p]))
      /\ \A i \in DOMAIN GatherCalls(p) :
           pc[p] # SiteWait(GatherCalls(p)[i]) =>
             \A q \in World(p) : gath[q][GatherCalls(p)[i]].here

\* C29: in a run with a communicator every worker makes the same gather
\* calls in the same order: two when Stage 1 is executed, then two when
\* Stage 2 is executed and a third when affine is extracted as well; the
\* calls a worker has made depend on the extract flags and on how far it
\* has come, not on its rank, its slice or its data, and every gather a
\* worker comes out of was joined by all workers; and a run in which no
\* worker fails ends with every worker having returned.
C29_UniformGathersTerminate == []GathersUniform /\ <>(SomeFailed \/ AllDone)

\* C29 witness: a two-worker run with the three classes in which no worker
\* failed and both workers returned after five gathers, each having
\* analysed fiducial pairs in both stages
C29_Witness ==
    /\ Cardinality(Procs) = 2
    /\ AllDone
    /\ \A p \in Procs :
         /\ GatherCalls(p) = <<"s1info", "s1J", "s2info", "s2J", "s2Jaff">>
         /\ Analysed(p, "stochastic") # <<>> /\ Analysed(p, "hamiltonian") # <<>>

====
